---- MODULE Spec2Model ----
(***************************************************************************)
(* Model of the publicdomain-app social media backend: the daily          *)
(* schedule/publish cycle of the four platform clients and the X outreach *)
(* pipeline, over one shared content store.                               *)
(***************************************************************************)
EXTENDS Integers, Sequences, FiniteSets, TLC

(* ------------------------------ bounds -------------------------------- *)
MaxBooks == 2
MaxQuotes == 2
MaxDay == 1
MaxRuns == 2
NumProcs == 2
MaxCatalog == 5
MaxTweets == 4
MaxXRuns == 2
MaxSweepBooks == 9
MaxSweepRuns == 5
MaxSubs == 2
MaxClock == 3
MaxRRuns == 2
MaxTopTweets == 14
MaxFailures == 1

(* ---------------------------- vocabulary ------------------------------ *)
\* `Bearer ${process.env.CRON_SECRET}`, another bearer value, and no header
BearerSecret == "Bearer secret"
Headers == {BearerSecret, "Bearer other", "none"}

\* const platforms of the two trigger routes that run the daily cycle
DailyPlatforms == <<"X", "reddit", "LinkedIn", "Facebook">>
CronPlatforms == <<"X", "reddit">>
Clients == {DailyPlatforms[k] : k \in 1..4}
Procs == 1..NumProcs

\* the literal platform tag each client writes into posts.platform
PlatformTag(c) ==
  CASE c = "X" -> "X"
    [] c = "reddit" -> "/r/FreeEBOOKS/"
    [] c = "LinkedIn" -> "LinkedIn"
    [] OTHER -> "Facebook"

\* the popularity column of the quotes table (reference data)
Popularity(q) == ((q - 1) % 2) + 1

VARIABLES
  platforms,  \* the platforms array of the deployed route
  books,      \* ids of the rows of table books
  quoteBook,  \* table quotes: quote id -> book_id
  fbQuotes,   \* TRUE: the quote-posting FacebookClient is deployed, FALSE: the link-posting one
  posts,      \* table posts, indexed by id
  today,      \* CURRENT_DATE
  proc,       \* one record per invocation of the daily route
  lastSched,  \* per client: the schedulePost calls completed today and the last call's result
  pubCount,   \* per post id: number of successful platform publish calls
  runs,       \* invocations of the daily route started today
  now,        \* the clock: quarter hours for the X pipeline, seconds for the Reddit pipeline
  settings,   \* table system_settings: key -> value
  replies,    \* table replies, the rows of the users that appear in search results
  bulkRows,   \* table replies, number of rows of other users, all dated BulkAt
  xr,         \* one record per invocation of XClient.quarterHourly
  sent,       \* per user: the times of the last two replies the platform accepted
  xruns,      \* invocations of quarterHourly started
  xlimit,     \* invocations of quarterHourly that the trigger makes
  sweep,      \* the chunks fetched since book_search_hour was last stored
  selectOne,  \* the deployed RedditClient revision: TRUE is the one with selectBookRequest
  subs,       \* the submissions of r/suggestmeabook, oldest first
  rr,         \* one record per invocation of RedditClient.quarterHourly
  rruns,      \* invocations of RedditClient.quarterHourly started
  authHeader  \* the authorization header of the requests to the trigger routes

dvars == <<platforms, books, quoteBook, fbQuotes, posts, today, proc, lastSched, pubCount, runs>>
xvars == <<now, settings, replies, bulkRows, xr, sent, xruns, xlimit, sweep>>
rvars == <<selectOne, subs, rr, rruns>>
avars == <<authHeader>>
vars == <<dvars, xvars, rvars, avars>>

quotes == DOMAIN quoteBook
PostIds == DOMAIN posts

\* step 0: no invocation; 1..n: schedulePost of platforms[step]; n+1..2n: publishScheduledPosts
\* of platforms[step - n], for n platforms. pc is the position inside the client method.
IdleProc ==
  [step |-> 0, pc |-> "idle", pre |-> FALSE, item |-> 0, batch |-> <<>>, idx |-> 0,
   callOk |-> FALSE, failed |-> FALSE, outcome |-> "none"]

NoSched == [calls |-> 0, pre |-> FALSE, inserted |-> 0, returned |-> <<>>]

AllIdle == \A i \in Procs : proc[i].step = 0

\* the client whose method invocation p is running
ClientOf(p) == platforms[((p.step - 1) % Len(platforms)) + 1]

(* --------------------------- store queries ---------------------------- *)
\* WHERE platform LIKE '%X%' / '%/r/%' / '%LinkedIn%' / = 'Facebook': over the
\* four tags in use each pattern matches exactly the client's own tag
MatchesPlatform(c, tag) == tag = PlatformTag(c)

\* variant: the existence check looks at today's date instead of tomorrow's
ExistingPostsToday(c) ==
  {i \in PostIds : /\ posts[i].status = "scheduled"
                   /\ MatchesPlatform(c, posts[i].platform)
                   /\ posts[i].date = today}

\* SELECT 1 FROM posts WHERE status='scheduled' AND platform .. AND DATE(published_date) = CURRENT_DATE + 1
ExistingPosts(c) ==
  {i \in PostIds : /\ posts[i].status = "scheduled"
                   /\ MatchesPlatform(c, posts[i].platform)
                   /\ posts[i].date = today + 1}

\* COUNT(p.book_id) of the LEFT JOIN posts p ON b.id = p.book_id AND p.platform ..
LinkPostCount(b, c) ==
  Cardinality({i \in PostIds : posts[i].book = b /\ MatchesPlatform(c, posts[i].platform)})

\* variant: the selection without ORDER BY post_count
BookToPostUnordered(c) == books

\* ORDER BY post_count ASC LIMIT 1: the rows that may come first
BookToPost(c) ==
  {b \in books : \A b2 \in books : LinkPostCount(b, c) <= LinkPostCount(b2, c)}

\* the join condition on posts of the quote CTEs: only the Facebook client filters by platform
QuotePostCounted(c, i) ==
  IF c = "Facebook" THEN posts[i].platform = "Facebook" ELSE TRUE

\* quote_post_counts.quote_post_count
QuotePostCount(q, c) ==
  Cardinality({i \in PostIds : posts[i].quote = q /\ QuotePostCounted(c, i)})

\* book_quote_counts.book_post_count
BookPostCount(b, c) ==
  Cardinality({i \in PostIds : /\ posts[i].quote \in quotes
                               /\ quoteBook[posts[i].quote] = b
                               /\ QuotePostCounted(c, i)})

\* filtered_books.min_quote_post_count
MinQuotePostCount(b, c) ==
  CHOOSE n \in 0..Len(posts) :
    /\ \E q \in quotes : quoteBook[q] = b /\ QuotePostCount(q, c) = n
    /\ \A q \in quotes : quoteBook[q] = b => QuotePostCount(q, c) >= n

\* rows of final_quotes
FinalQuotes(c) ==
  {q \in quotes : /\ quoteBook[q] \in books
                  /\ QuotePostCount(q, c) = MinQuotePostCount(quoteBook[q], c)}

\* ORDER BY fb.book_post_count ASC, qpc.quote_post_count ASC, qpc.popularity DESC
QuoteRowBefore(q1, q2, c) ==
  LET b1 == BookPostCount(quoteBook[q1], c)
      b2 == BookPostCount(quoteBook[q2], c)
      n1 == QuotePostCount(q1, c)
      n2 == QuotePostCount(q2, c)
  IN  \/ b1 < b2
      \/ b1 = b2 /\ n1 < n2
      \/ b1 = b2 /\ n1 = n2 /\ Popularity(q1) >= Popularity(q2)

\* LIMIT 1: the rows that may come first
QuoteToPost(c) ==
  {q \in FinalQuotes(c) : \A q2 \in FinalQuotes(c) : QuoteRowBefore(q, q2, c)}

IsQuoteClient(c) == c \in {"X", "LinkedIn"} \/ (c = "Facebook" /\ fbQuotes)

\* the content units the selection query of client c may return
NextItems(c) == IF IsQuoteClient(c) THEN QuoteToPost(c) ELSE BookToPost(c)

\* the row schedulePost inserts for item it
NewPost(c, it) ==
  [book |-> IF c = "X" THEN 0 ELSE IF IsQuoteClient(c) THEN quoteBook[it] ELSE it,
   quote |-> IF IsQuoteClient(c) THEN it ELSE 0,
   platform |-> PlatformTag(c),
   status |-> "scheduled",
   date |-> today + 1]

\* data.rows of the INSERT: only the statements with RETURNING id yield a row
InsertReturns(c, id) ==
  IF IsQuoteClient(c) THEN <<id>> ELSE <<>>

(* ------------------------------ Init ---------------------------------- *)
\* the trigger sends the shared secret
Authorized == authHeader = BearerSecret

InitDaily ==
  /\ platforms \in {DailyPlatforms, CronPlatforms}
  /\ \E nb \in 0..MaxBooks : books = 1..nb
  /\ \E nq \in 0..MaxQuotes : quoteBook \in [1..nq -> books]
  /\ fbQuotes \in BOOLEAN
  /\ posts = <<>>
  /\ today = 0
  /\ proc = [i \in Procs |-> IdleProc]
  /\ lastSched = [c \in Clients |-> NoSched]
  /\ pubCount = <<>>
  /\ runs = 0

(* ------------------------- the daily route ---------------------------- *)
\* GET of the daily trigger: schedulePostForPlatforms, then publishScheduledPosts
Invoke(i) ==
  /\ proc[i].step = 0
  /\ runs < MaxRuns
  /\ runs' = runs + 1
  /\ proc' = [proc EXCEPT ![i] = [IdleProc EXCEPT !.step = 1, !.pc = "start"]]
  /\ UNCHANGED <<platforms, books, quoteBook, fbQuotes, posts, today, lastSched, pubCount>>
  /\ UNCHANGED <<xvars, rvars, avars>>

\* the client method returned: the route's for loops go on to the next client,
\* and after the last one the route answers success
Continue(p) ==
  IF p.step < 2 * Len(platforms)
    THEN [IdleProc EXCEPT !.step = p.step + 1, !.pc = "start", !.failed = p.failed]
    ELSE [IdleProc EXCEPT !.outcome = "ok", !.failed = p.failed]

\* the client method threw: the route's catch answers status 500
Throw(p) == [IdleProc EXCEPT !.outcome = "error", !.failed = p.failed]

(* --------------------------- schedulePost ----------------------------- *)
\* bookkeeping of a completed call of client c that inserted row id (0: none) and returned rows;
\* pre: when the first call of the day began, no post was scheduled for tomorrow and a content unit existed
Returned(c, id, rows, first) ==
  [lastSched EXCEPT ![c] =
     [calls |-> IF @.calls < 2 THEN @.calls + 1 ELSE 2,
      pre |-> IF @.calls = 0 THEN first ELSE @.pre,
      inserted |-> id, returned |-> rows]]

\* Step 1: the existence check; a hit returns []
SchedCheck(i) ==
  /\ proc[i].step \in 1..Len(platforms)
  /\ proc[i].pc = "start"
  /\ LET c == ClientOf(proc[i]) IN
       IF ExistingPosts(c) # {}
         THEN /\ proc' = [proc EXCEPT ![i] = Continue(proc[i])]
              /\ lastSched' = Returned(c, 0, <<>>, FALSE)
         ELSE /\ proc' = [proc EXCEPT ![i].pc = "select", ![i].pre = NextItems(c) # {}]
              /\ UNCHANGED lastSched
  /\ UNCHANGED <<platforms, books, quoteBook, fbQuotes, posts, today, pubCount, runs>>
  /\ UNCHANGED <<xvars, rvars, avars>>

\* Step 2: the selection query; no row returns []
SchedSelect(i) ==
  /\ proc[i].pc = "select"
  /\ LET c == ClientOf(proc[i]) IN
       IF NextItems(c) = {}
         THEN /\ proc' = [proc EXCEPT ![i] = Continue(proc[i])]
              /\ lastSched' = Returned(c, 0, <<>>, proc[i].pre)
         ELSE /\ \E it \in NextItems(c) :
                   proc' = [proc EXCEPT ![i].pc = "insert", ![i].item = it]
              /\ UNCHANGED lastSched
  /\ UNCHANGED <<platforms, books, quoteBook, fbQuotes, posts, today, pubCount, runs>>
  /\ UNCHANGED <<xvars, rvars, avars>>

\* Step 4: the INSERT and the return of data.rows
SchedInsert(i) ==
  /\ proc[i].pc = "insert"
  /\ LET c == ClientOf(proc[i])
         id == Len(posts) + 1
     IN  /\ posts' = Append(posts, NewPost(c, proc[i].item))
         /\ pubCount' = Append(pubCount, 0)
         /\ lastSched' = Returned(c, id, InsertReturns(c, id), proc[i].pre)
         /\ proc' = [proc EXCEPT ![i] = Continue(proc[i])]
  /\ UNCHANGED <<platforms, books, quoteBook, fbQuotes, today, runs>>
  /\ UNCHANGED <<xvars, rvars, avars>>

(* ----------------------- publishScheduledPosts ------------------------ *)
\* variant: the WHERE clause has no platform condition
ScheduledTodayAnyPlatform(c) ==
  {i \in PostIds : /\ posts[i].status = "scheduled"
                   /\ posts[i].date = today}

\* variant: the WHERE clause takes every date up to CURRENT_DATE
ScheduledUpToToday(c) ==
  {i \in PostIds : /\ posts[i].status = "scheduled"
                   /\ MatchesPlatform(c, posts[i].platform)
                   /\ posts[i].date <= today}

\* fetchScheduledPosts: status='scheduled', the client's platform, DATE(published_date) = CURRENT_DATE
ScheduledToday(c) ==
  {i \in PostIds : /\ posts[i].status = "scheduled"
                   /\ MatchesPlatform(c, posts[i].platform)
                   /\ posts[i].date = today}

RECURSIVE SortedSeq(_)
\* result.rows, in id order
SortedSeq(S) ==
  IF S = {} THEN <<>>
  ELSE LET m == CHOOSE x \in S : Cardinality({y \in S : y < x}) = Cardinality(S) \div 2
       IN  SortedSeq({y \in S : y < m}) \o <<m>> \o SortedSeq({y \in S : y > m})

\* end of one iteration of the for loop over scheduledPosts
NextPost(p) ==
  IF p.idx < Len(p.batch)
    THEN [p EXCEPT !.pc = "call", !.idx = p.idx + 1, !.callOk = FALSE]
    ELSE Continue(p)

\* the catch around one post: only LinkedInClient logs without rethrowing
\* variant: XClient logs the error as well
SwallowsPostErrorX(c) == c = "LinkedIn" \/ c = "X"
SwallowsPostError(c) == c = "LinkedIn"

\* submitLinkWithFlair catches the submission error and returns null
SubmitReturnsNull(c) == c = "reddit"

\* the clients that add a follow-up comment after the status update
CommentsAfterPublish(c) == c = "LinkedIn" \/ (c = "Facebook" /\ fbQuotes)

\* the fetch; ok = FALSE is a failed store query, which is rethrown
PubFetch(i, ok) ==
  /\ proc[i].step > Len(platforms)
  /\ proc[i].pc = "start"
  /\ LET p == [proc[i] EXCEPT !.failed = FALSE]
         c == ClientOf(p)
     IN  proc' = [proc EXCEPT ![i] =
           IF ~ok THEN Throw(p)
           ELSE IF ScheduledToday(c) = {} THEN Continue(p)
           ELSE [p EXCEPT !.pc = "call", !.batch = SortedSeq(ScheduledToday(c)), !.idx = 1]]
  /\ UNCHANGED <<platforms, books, quoteBook, fbQuotes, posts, today, lastSched, pubCount, runs>>
  /\ UNCHANGED <<xvars, rvars, avars>>

\* the platform publish call for the current post; ok = FALSE is a platform failure
PubCall(i, ok) ==
  /\ proc[i].pc = "call"
  /\ LET p == proc[i]
         c == ClientOf(p)
         id == p.batch[p.idx]
     IN  IF ok
           THEN /\ pubCount' = [pubCount EXCEPT ![id] = @ + 1]
                /\ proc' = [proc EXCEPT ![i] = [p EXCEPT !.pc = "update", !.callOk = TRUE]]
           ELSE /\ UNCHANGED pubCount
                /\ proc' = [proc EXCEPT ![i] =
                     LET f == [p EXCEPT !.failed = TRUE] IN
                     IF SubmitReturnsNull(c) THEN [f EXCEPT !.pc = "update", !.callOk = FALSE]
                     ELSE IF SwallowsPostError(c) THEN NextPost(f)
                     ELSE Throw(f)]
  /\ UNCHANGED <<platforms, books, quoteBook, fbQuotes, posts, today, lastSched, runs>>
  /\ UNCHANGED <<xvars, rvars, avars>>

\* updatePostStatus and the follow-up comment; ok = FALSE is a failed store
\* write, commentOk = FALSE a comment request that throws
PubUpdate(i, ok, commentOk) ==
  /\ proc[i].pc = "update"
  /\ LET p == proc[i]
         c == ClientOf(p)
         id == p.batch[p.idx]
     IN  IF ok
           THEN /\ posts' = [posts EXCEPT ![id].status = "published"]
                /\ proc' = [proc EXCEPT ![i] =
                     IF CommentsAfterPublish(c) /\ ~commentOk /\ ~SwallowsPostError(c)
                       THEN Throw(p)
                       ELSE NextPost(p)]
           ELSE /\ UNCHANGED posts
                /\ proc' = [proc EXCEPT ![i] =
                     IF SwallowsPostError(c) THEN NextPost(p) ELSE Throw(p)]
  /\ UNCHANGED <<platforms, books, quoteBook, fbQuotes, today, lastSched, pubCount, runs>>
  /\ UNCHANGED <<xvars, rvars, avars>>

(* ------------------------------ the day ------------------------------- *)
NextDay ==
  /\ AllIdle
  /\ today < MaxDay
  /\ today' = today + 1
  /\ lastSched' = [c \in Clients |-> NoSched]
  /\ proc' = [i \in Procs |-> IdleProc]
  /\ runs' = 0
  /\ UNCHANGED <<platforms, books, quoteBook, fbQuotes, posts, pubCount>>
  /\ UNCHANGED <<xvars, rvars, avars>>

(* ======================= the X outreach pipeline ====================== *)
\* INTERVAL '24 hours' and INTERVAL '30 days', in quarter hours
Day == 96
Cooldown == 2880
\* the 24-hour reply cap, the LIMIT ceiling of a chunk, the slice of selectTopPosts
ReplyCap == 90
MaxChunk == 50
TopN == 10
\* replied_at of the rows counted in bulkRows: on the edge of the 24-hour window at time 0
BulkAt == 0 - Day

Min(a, b) == IF a <= b THEN a ELSE b

\* now.getHours()
HourOf(t) == (t \div 4) % 24

\* Math.min(50, Math.ceil(totalBooks / 4))
\* variant: the quarter is rounded down
ChunkSizeFloor(total) == Min(MaxChunk, total \div 4)
ChunkSize(total) == Min(MaxChunk, (total + 3) \div 4)

(* ---- system_settings values are text: Number.toString and parseInt ---- *)
Digits == <<"0", "1", "2", "3", "4", "5", "6", "7", "8", "9">>

RECURSIVE NatToString(_)
NatToString(n) ==
  IF n < 10 THEN <<Digits[n + 1]>>
  ELSE NatToString(n \div 10) \o <<Digits[(n % 10) + 1]>>

NumberToString(n) == IF n < 0 THEN <<"-">> \o NatToString(0 - n) ELSE NatToString(n)

IsDigit(ch) == \E d \in 1..10 : Digits[d] = ch
DigitVal(ch) == (CHOOSE d \in 1..10 : Digits[d] = ch) - 1

RECURSIVE ParseNat(_, _)
\* the longest prefix of decimal digits, base 10
ParseNat(str, acc) ==
  IF str = <<>> \/ ~IsDigit(Head(str)) THEN acc
  ELSE ParseNat(Tail(str), 10 * acc + DigitVal(Head(str)))

ParseInt(str) ==
  IF str # <<>> /\ Head(str) = "-" THEN 0 - ParseNat(Tail(str), 0) ELSE ParseNat(str, 0)

\* INSERT ... ON CONFLICT(key) DO UPDATE SET value = EXCLUDED.value
SetSetting(st, key, n) ==
  [x \in DOMAIN st \cup {key} |-> IF x = key THEN NumberToString(n) ELSE st[x]]

\* getCurrentBookSearchHour / getCurrentBookOffset: a missing row is inserted with the default
EnsureSetting(st, key, n) == IF key \in DOMAIN st THEN st ELSE SetSetting(st, key, n)
GetSetting(st, key, n) == IF key \in DOMAIN st THEN ParseInt(st[key]) ELSE n

(* ------------- what the platform search can return -------------------- *)
\* tweets 1 and 2 are by user 1, every later tweet t by user t - 1
TweetAuthor(t) == IF t <= 2 THEN 1 ELSE t - 1
Users == {TweetAuthor(t) : t \in 1..MaxTweets} \cup {TweetAuthor(t) : t \in 1..MaxTopTweets}

\* usernames as character classes (l: letter, d: digit); has = FALSE: the user is
\* missing from includes.users
Username(u) ==
  CASE u = 1 -> [has |-> TRUE, name |-> <<"l", "d", "d", "d", "l">>]
    [] u = 2 -> [has |-> TRUE, name |-> <<"l", "l">>]
    [] u = 3 -> [has |-> TRUE, name |-> <<"l", "d", "d", "d", "d">>]
    [] u = 4 -> [has |-> FALSE, name |-> <<>>]
    [] u = 5 -> [has |-> TRUE, name |-> <<>>]
    [] OTHER -> [has |-> TRUE, name |-> <<"l", "d", "l">>]

\* public_metrics.like_count and the author's followers_count
LikeCount(t) == t % 2
Followers(u) == 3 - (u % 3)

\* the book whose title and author tweet t quotes
TweetBook(t) == ((t - 1) % Cardinality(books)) + 1

\* /\d{4,}/.test(username)
HasDigitRun(name) ==
  \E k \in 1..(Len(name) - 3) : \A d \in 0..3 : name[k + d] = "d"

\* variant: only the digit test
IsSuspiciousUsernameDigits(un) == HasDigitRun(un.name)

\* isSuspiciousUsername: a missing or empty username is suspicious
IsSuspiciousUsername(un) ==
  IF un.has /\ un.name # <<>> THEN HasDigitRun(un.name) ELSE TRUE

RECURSIVE SelectSeq2(_, _)
\* Array.filter with a predicate on the author
SelectSeq2(seq, keep) ==
  IF seq = <<>> THEN <<>>
  ELSE IF TweetAuthor(Head(seq)) \in keep
    THEN <<Head(seq)>> \o SelectSeq2(Tail(seq), keep)
    ELSE SelectSeq2(Tail(seq), keep)

filterSuspiciousUsernames(tweets) ==
  SelectSeq2(tweets, {u \in Users : ~IsSuspiciousUsername(Username(u))})

Score(t) == LikeCount(t) + Followers(TweetAuthor(t))

RECURSIVE SortByScore(_)
\* Array.sort((a, b) => b.score - a.score), which is stable
SortByScore(seq) ==
  IF seq = <<>> THEN <<>>
  ELSE LET k == CHOOSE x \in 1..Len(seq) :
                  /\ \A y \in 1..Len(seq) : Score(seq[x]) >= Score(seq[y])
                  /\ \A y \in 1..(x - 1) : Score(seq[y]) < Score(seq[x])
       IN  <<seq[k]>> \o SortByScore(SubSeq(seq, 1, k - 1) \o SubSeq(seq, k + 1, Len(seq)))

\* variant: the slice without the sort
selectTopPostsUnsorted(tweets) ==
  SubSeq(tweets, 1, Min(TopN, Len(tweets)))

\* map to the score, sort descending, slice(0, 10)
selectTopPosts(tweets) ==
  LET sorted == SortByScore(tweets) IN SubSeq(sorted, 1, Min(TopN, Len(sorted)))

\* rows counted by WHERE replied_at >= NOW() - INTERVAL '24 hours'
RecentReplies(t) ==
  Cardinality({r \in replies : r.replied_at >= t - Day})
    + (IF BulkAt >= t - Day THEN bulkRows ELSE 0)

\* variant: the cap test with a strict comparison
CapReachedStrict(n) == n > ReplyCap

\* the cap test of quarterHourly
CapReached(n) == n >= ReplyCap

\* variant: the lookup without the condition on replied_at
KnownUserIdsAnyAge(t) == {r.user_id : r \in replies}

\* user ids returned by the lookup of removePostsWithKnownUsers
KnownUserIds(t) == {r.user_id : r \in {x \in replies : x.replied_at >= t - Cooldown}}

removePostsWithKnownUsers(tweets, t) ==
  SelectSeq2(tweets, Users \ KnownUserIds(t))

\* variant: ON CONFLICT (user_id) DO NOTHING
UpsertReplyKeep(rows, u, t, at) ==
  IF \E r \in rows : r.user_id = u THEN rows
  ELSE rows \cup {[user_id |-> u, replied_at |-> at, post_id |-> t]}

\* INSERT INTO replies ... ON CONFLICT (user_id) DO UPDATE SET replied_at = now(), post_id = ...
UpsertReply(rows, u, t, at) ==
  {r \in rows : r.user_id # u} \cup {[user_id |-> u, replied_at |-> at, post_id |-> t]}

\* SELECT ... FROM books ORDER BY b.id LIMIT chunk OFFSET offset
\* variant: an offset past the last row starts again at the first row
FetchChunkWrapped(chunk, offset) ==
  LET all == SortedSeq(books)
      from == IF offset >= Len(all) THEN 0 ELSE offset
  IN  SubSeq(all, from + 1, Min(from + chunk, Len(all)))

FetchChunk(chunk, offset) ==
  LET all == SortedSeq(books)
  IN  IF offset >= Len(all) THEN <<>>
      ELSE SubSeq(all, offset + 1, Min(offset + chunk, Len(all)))

(* ------------------------ XClient.quarterHourly ----------------------- *)
\* the locals and the summary of one invocation; seen are the tweets the
\* searches returned, before any filter, kept until the loop over the books
\* is left; calls counts the platform
\* requests made, failed the requests and upserts that were rejected, entry is
\* the store as the invocation found it
IdleRun ==
  [pc |-> "idle", last24 |-> 0, totalBooks |-> 0, chunk |-> 0, offset |-> 0,
   fetched |-> <<>>, k |-> 0, seen |-> {}, allPosts |-> <<>>, fresh |-> <<>>, top |-> <<>>,
   j |-> 0,
   repliesMade |-> 0, booksProcessed |-> 0, errors |-> <<>>,
   calls |-> [search |-> 0, reply |-> 0],
   failed |-> [search |-> 0, reply |-> 0, record |-> 0],
   entry |-> [settings |-> <<>>, replies |-> {}]]

\* return summary: the locals are gone, the summary stays with the caller
Finish(r) == [r EXCEPT !.pc = "done", !.fetched = <<>>, !.k = 0, !.seen = {}, !.allPosts = <<>>,
                       !.fresh = <<>>, !.top = <<>>, !.j = 0]

\* step 0: the 24-hour count; dt is the time since the previous invocation
XInvoke(i, dt) ==
  /\ xr[i].pc \in {"idle", "done"}
  /\ xruns < xlimit
  /\ xruns' = xruns + 1
  /\ now' = now + dt
  /\ LET n == RecentReplies(now')
         r == [IdleRun EXCEPT !.last24 = n,
                              !.entry = [settings |-> settings, replies |-> replies]]
     IN  xr' = [xr EXCEPT ![i] =
           IF CapReached(n) THEN Finish([r EXCEPT !.errors = <<"cap">>])
           ELSE [r EXCEPT !.pc = "total"]]
  /\ UNCHANGED <<settings, replies, bulkRows, xlimit, sent, sweep>>
  /\ UNCHANGED <<dvars, rvars, avars>>

\* step 1: the catalog size
XTotal(i) ==
  /\ xr[i].pc = "total"
  /\ LET r == [xr[i] EXCEPT !.totalBooks = Cardinality(books)]
     IN  xr' = [xr EXCEPT ![i] =
           IF r.totalBooks = 0 THEN Finish([r EXCEPT !.errors = Append(@, "nobooks")])
           ELSE [r EXCEPT !.pc = "hour"]]
  /\ UNCHANGED <<now, settings, replies, bulkRows, xlimit, sent, xruns, sweep>>
  /\ UNCHANGED <<dvars, rvars, avars>>

\* variant: the default of the first read does not count as another hour
HourChangedSeeded(current, last) == last # 0 - 1 /\ current # last

\* currentHour !== lastHour
HourChanged(current, last) == current # last

\* step 2: the hour test; a changed hour stores offset 0 and the current hour
XHour(i) ==
  /\ xr[i].pc = "hour"
  /\ LET lastHour == GetSetting(settings, "book_search_hour", 0 - 1)
         st == EnsureSetting(settings, "book_search_hour", 0 - 1)
     IN  IF HourChanged(HourOf(now), lastHour)
           THEN /\ settings' = SetSetting(SetSetting(st, "book_search_offset", 0),
                                          "book_search_hour", HourOf(now))
                /\ xr' = [xr EXCEPT ![i].pc = "fetch", ![i].errors = Append(@, "hour")]
                /\ sweep' = <<>>
           ELSE /\ settings' = st
                /\ xr' = [xr EXCEPT ![i].pc = "fetch"]
                /\ UNCHANGED sweep
  /\ UNCHANGED <<now, replies, bulkRows, xlimit, sent, xruns>>
  /\ UNCHANGED <<dvars, rvars, avars>>

\* steps 3 to 5: chunk size, stored offset, the chunk; an empty chunk stores offset 0
XFetch(i) ==
  /\ xr[i].pc = "fetch"
  /\ LET chunk == ChunkSize(xr[i].totalBooks)
         offset == GetSetting(settings, "book_search_offset", 0)
         st == EnsureSetting(settings, "book_search_offset", 0)
         rows == FetchChunk(chunk, offset)
         r == [xr[i] EXCEPT !.chunk = chunk, !.offset = offset]
     IN  IF rows = <<>>
           THEN /\ settings' = SetSetting(st, "book_search_offset", 0)
                /\ xr' = [xr EXCEPT ![i] = Finish([r EXCEPT !.errors = Append(@, "nochunk")])]
                /\ UNCHANGED sweep
           ELSE /\ settings' = st
                /\ sweep' = Append(sweep, [offset |-> offset, rows |-> rows])
                /\ xr' = [xr EXCEPT ![i] = [r EXCEPT !.pc = "search", !.fetched = rows, !.k = 1,
                                                     !.booksProcessed = Len(rows)]]
  /\ UNCHANGED <<now, replies, bulkRows, xlimit, sent, xruns>>
  /\ UNCHANGED <<dvars, rvars, avars>>

\* after the last search: nothing found returns at once, else the lookup follows
\* variant: a run without candidates returns before the offset is advanced
AfterSearchReturn(r) ==
  IF r.k < Len(r.fetched) THEN [r EXCEPT !.k = r.k + 1]
  ELSE IF r.allPosts = <<>> THEN Finish(r)
  ELSE [r EXCEPT !.pc = "known"]

AfterSearch(r) ==
  IF r.k < Len(r.fetched) THEN [r EXCEPT !.k = r.k + 1]
  ELSE IF r.allPosts = <<>> THEN [r EXCEPT !.pc = "advance"]
  ELSE [r EXCEPT !.pc = "known"]

\* variant: one catch around the whole loop over the books
SearchFailedAbort(r) ==
  [r EXCEPT !.errors = Append(@, "search"), !.failed.search = @ + 1, !.pc = "advance"]

\* the catch inside the loop over the books: the error is pushed and the loop goes on
SearchFailed(r) ==
  AfterSearch([r EXCEPT !.errors = Append(@, "search"), !.failed.search = @ + 1])

\* replyToAllBookMentions, 1: searchPosts for one book; ok = FALSE is a failed
\* request, found the tweets the platform returns
XSearch(i, ok, found) ==
  /\ xr[i].pc = "search"
  /\ \A t \in found : TweetBook(t) = xr[i].fetched[xr[i].k]
  /\ ~ok => found = {}
  /\ LET r == [xr[i] EXCEPT !.calls.search = @ + 1]
     IN  xr' = [xr EXCEPT ![i] =
           IF ok
             THEN AfterSearch([r EXCEPT !.seen = @ \cup found,
                                        !.allPosts = @ \o filterSuspiciousUsernames(SortedSeq(found))])
             ELSE SearchFailed(r)]
  /\ UNCHANGED <<now, settings, replies, bulkRows, xlimit, sent, xruns, sweep>>
  /\ UNCHANGED <<dvars, rvars, avars>>

\* replyToAllBookMentions, 2 and 3: the known-user lookup (ok = FALSE: the query
\* failed and all candidates are kept) and the top selection
XKnown(i, ok) ==
  /\ xr[i].pc = "known"
  /\ LET r == [xr[i] EXCEPT !.seen = {}]
         fresh == IF ok THEN removePostsWithKnownUsers(r.allPosts, now) ELSE r.allPosts
         e == IF ok THEN r.errors ELSE Append(r.errors, "lookup")
         top == selectTopPosts(fresh)
     IN  xr' = [xr EXCEPT ![i] =
           IF top = <<>> THEN [r EXCEPT !.pc = "advance", !.fresh = fresh, !.errors = e]
           ELSE [r EXCEPT !.pc = "reply", !.fresh = fresh, !.top = top, !.j = 1, !.errors = e]]
  /\ UNCHANGED <<now, settings, replies, bulkRows, xlimit, sent, xruns, sweep>>
  /\ UNCHANGED <<dvars, rvars, avars>>

\* end of one iteration of the loop over topPosts
NextTop(r) ==
  IF r.j < Len(r.top) THEN [r EXCEPT !.pc = "reply", !.j = r.j + 1]
  ELSE [r EXCEPT !.pc = "advance"]

\* replyToPosts, the reply request; ok = FALSE is a rejected request, which the
\* caller's catch records
XReply(i, ok) ==
  /\ xr[i].pc = "reply"
  /\ LET r == [xr[i] EXCEPT !.calls.reply = @ + 1]
         u == TweetAuthor(r.top[r.j])
     IN  IF ok
           THEN /\ sent' = [sent EXCEPT ![u] = IF @ = <<>> THEN <<now>> ELSE <<@[Len(@)], now>>]
                /\ xr' = [xr EXCEPT ![i] = [r EXCEPT !.pc = "record"]]
           ELSE /\ UNCHANGED sent
                /\ xr' = [xr EXCEPT ![i] = NextTop([r EXCEPT !.errors = Append(@, "reply"),
                                                             !.failed.reply = @ + 1])]
  /\ UNCHANGED <<now, settings, replies, bulkRows, xlimit, xruns, sweep>>
  /\ UNCHANGED <<dvars, rvars, avars>>

\* replyToPosts, the upsert; ok = FALSE is a failed store write: replyToPosts
\* throws, so its count is lost
XRecord(i, ok) ==
  /\ xr[i].pc = "record"
  /\ LET r == xr[i]
         t == r.top[r.j]
     IN  IF ok
           THEN /\ replies' = UpsertReply(replies, TweetAuthor(t), t, now)
                /\ xr' = [xr EXCEPT ![i] = NextTop([r EXCEPT !.repliesMade = @ + 1])]
           ELSE /\ UNCHANGED replies
                /\ xr' = [xr EXCEPT ![i] = NextTop([r EXCEPT !.errors = Append(@, "reply"),
                                                             !.failed.record = @ + 1])]
  /\ UNCHANGED <<now, settings, bulkRows, xlimit, sent, xruns, sweep>>
  /\ UNCHANGED <<dvars, rvars, avars>>

\* variant: the wrap test with a strict comparison
NewOffsetStrict(offset, chunk, total) ==
  IF offset + chunk > total THEN 0 ELSE offset + chunk

\* step 7: advance the offset, wrapping at the end of the catalog
NewOffset(offset, chunk, total) ==
  IF offset + chunk >= total THEN 0 ELSE offset + chunk

XAdvance(i) ==
  /\ xr[i].pc = "advance"
  /\ settings' = SetSetting(settings, "book_search_offset",
                            NewOffset(xr[i].offset, xr[i].chunk, xr[i].totalBooks))
  /\ xr' = [xr EXCEPT ![i] = Finish(xr[i])]
  /\ UNCHANGED <<now, replies, bulkRows, xlimit, sent, xruns, sweep>>
  /\ UNCHANGED <<dvars, rvars, avars>>

(* ==================== the Reddit suggestion pipeline ================== *)
\* the default limit of getLatestBookRequests and the factor of the over-fetch
FetchLimit == 10
OverFetch == 5

\* the key of the watermark in system_settings
WatermarkKey == "last_checked_r_suggestmeabook"

(* --------------- what the language model can answer ------------------- *)
\* a title as text: the book it names (0: the field is missing) and its spelling
Title(b, caps) == [id |-> b, caps |-> caps]

\* LOWER(title)
Lower(t) == [t EXCEPT !.caps = FALSE]

\* books.title of book b
StoreTitle(b) == Title(b, TRUE)

\* a title that no row of books carries
AbsentTitle == Title(Cardinality(books) + 1, TRUE)

\* one element of the books array: scores are tenths (0: the field is missing);
\* hook: the element has the field; isNull: the element is null
Entry(score, title, hook) ==
  [isNull |-> FALSE, score |-> score, title |-> title, hook |-> hook]
NullEntry == [isNull |-> TRUE, score |-> 0, title |-> Title(0, FALSE), hook |-> FALSE]

\* the content string, by its JSON value: text that is not JSON, null, an
\* array, or an object with or without the member books
NotJson == [kind |-> "text", hasBooks |-> FALSE, books |-> <<>>]
JsonNull == [kind |-> "null", hasBooks |-> FALSE, books |-> <<>>]
EmptyArray == [kind |-> "array", hasBooks |-> FALSE, books |-> <<>>]
IntroOnly == [kind |-> "object", hasBooks |-> FALSE, books |-> <<>>]
WithBooks(bs) == [kind |-> "object", hasBooks |-> TRUE, books |-> bs]

Responses ==
  {NotJson, JsonNull, EmptyArray, IntroOnly,
   WithBooks(<<>>),
   WithBooks(<<NullEntry>>),
   WithBooks(<<Entry(0, Title(0, FALSE), FALSE)>>),
   WithBooks(<<Entry(45, Title(1, FALSE), TRUE)>>),
   WithBooks(<<Entry(20, Title(1, TRUE), TRUE)>>),
   WithBooks(<<Entry(45, Title(1, TRUE), FALSE)>>),
   WithBooks(<<Entry(45, AbsentTitle, TRUE)>>),
   WithBooks(<<Entry(40, AbsentTitle, TRUE), Entry(36, Title(1, TRUE), TRUE)>>),
   WithBooks(<<Entry(40, Title(2, FALSE), TRUE), Entry(45, AbsentTitle, TRUE),
               Entry(36, Title(1, TRUE), TRUE)>>)}

\* JSON.parse(suggestion) throws
ParseThrows(r) == r.kind = "text"

\* suggestBooksForRequests: parsed.books && parsed.books.length > 0 inside the
\* try; a thrown error skips the post
HasSuggestions(r) == r.kind = "object" /\ r.hasBooks /\ r.books # <<>>

\* selectBookRequest: Math.max(...parsed.books.map(book => book.overall_score || 0));
\* a null element throws inside the try and the post is skipped (score 0)
MaxScore(r) ==
  IF ~HasSuggestions(r) \/ (\E x \in 1..Len(r.books) : r.books[x].isNull) THEN 0
  ELSE CHOOSE m \in {r.books[x].score : x \in 1..Len(r.books)} :
         \A x \in 1..Len(r.books) : r.books[x].score <= m

RECURSIVE SelectFrom(_, _, _)
\* selectBookRequest: the first post with the strictly highest maximum score;
\* 0 when no post has a positive score
SelectFrom(sugg, highest, selected) ==
  IF sugg = <<>> THEN selected
  ELSE IF MaxScore(Head(sugg).resp) > highest
    THEN SelectFrom(Tail(sugg), MaxScore(Head(sugg).resp), Head(sugg).post)
    ELSE SelectFrom(Tail(sugg), highest, selected)

\* variant: highestScore starts below 0
selectBookRequestFromBelow(sugg) == SelectFrom(sugg, 0 - 1, 0)
selectBookRequest(sugg) == SelectFrom(sugg, 0, 0)

\* variant: the title is not looked up in books
TitleInStoreUnchecked(t) == t.id > 0
\* SELECT ... FROM books b WHERE LOWER(b.title) = LOWER(title) LIMIT 1 finds a row
TitleInStore(t) == \E b \in books : Lower(StoreTitle(b)) = Lower(t)

RECURSIVE ReplyLines(_)
\* the bullet lines of composeReply: the book each links, and whether its
\* hook is text (a missing hook is printed as "undefined")
ReplyLines(bs) ==
  IF bs = <<>> THEN <<>>
  ELSE IF TitleInStore(Head(bs).title)
    THEN <<[book |-> Head(bs).title.id, hook |-> Head(bs).hook]>> \o ReplyLines(Tail(bs))
    ELSE ReplyLines(Tail(bs))

\* composeReply: the empty sequence is the empty string; a parse error or a
\* null element is caught and gives the empty string
composeReply(r) ==
  IF r.kind \in {"text", "null"} THEN <<>>
  ELSE IF ~r.hasBooks \/ r.kind = "array" THEN <<>>
  ELSE IF \E x \in 1..Len(r.books) : r.books[x].isNull THEN <<>>
  ELSE ReplyLines(r.books)

RECURSIVE Reverse(_)
Reverse(seq) == IF seq = <<>> THEN <<>> ELSE Reverse(Tail(seq)) \o <<Head(seq)>>

\* variant: the filter keeps a post created in the second of the watermark
CreatedAtOrAfter(ids, lastChecked) ==
  SelectSeq(ids, LAMBDA x : subs[x].created >= lastChecked)

RECURSIVE CreatedAfter(_, _)
\* posts.filter(post => post.created_utc > lastChecked)
CreatedAfter(ids, lastChecked) ==
  IF ids = <<>> THEN <<>>
  ELSE IF subs[Head(ids)].created > lastChecked
    THEN <<Head(ids)>> \o CreatedAfter(Tail(ids), lastChecked)
    ELSE CreatedAfter(Tail(ids), lastChecked)

\* getNew({ limit: limit * 5 }): the newest submissions, newest first
GetNew == LET all == Reverse([x \in 1..Len(subs) |-> x])
          IN  SubSeq(all, 1, Min(FetchLimit * OverFetch, Len(all)))

\* newPosts of getLatestBookRequests
NewPosts(lastChecked) ==
  LET fresh == CreatedAfter(GetNew, lastChecked)
  IN  SubSeq(fresh, 1, Min(FetchLimit, Len(fresh)))

\* rows[0]?.value ? Number(rows[0].value) : 0
LastChecked == GetSetting(settings, WatermarkKey, 0)

(* --------------------- RedditClient.quarterHourly --------------------- *)
IdleRedditRun ==
  [pc |-> "idle", lastChecked |-> 0, stamp |-> 0, newPosts |-> <<>>, k |-> 0,
   got |-> <<>>, suggestions |-> <<>>, target |-> 0, message |-> <<>>,
   made |-> 0, repliedTo |-> {}, replyCalls |-> 0, upvoteCalls |-> 0,
   callFailed |-> FALSE, outcome |-> "none"]

\* no suggestion pipeline: no submission, no invocation
RIdle ==
  /\ selectOne = TRUE
  /\ subs = <<>>
  /\ rr = [i \in Procs |-> IdleRedditRun]
  /\ rruns = 0

\* the promise of quarterHourly resolves with a message
RReturn(r) == [r EXCEPT !.pc = "idle", !.outcome = "ok"]

\* the promise of quarterHourly rejects
RThrow(r) == [r EXCEPT !.pc = "idle", !.outcome = "error"]

\* the entry of bookSuggestions for the selected post
SuggestionOf(sugg, post) ==
  LET x == CHOOSE y \in 1..Len(sugg) :
             sugg[y].post = post /\ \A z \in 1..(y - 1) : sugg[z].post # post
  IN  sugg[x].resp

\* variant: the post is selected among those whose reply is not empty
AfterSuggestionsMatching(r) ==
  LET usable == SelectSeq(r.suggestions, LAMBDA e : composeReply(e.resp) # <<>>)
      post == selectBookRequest(usable)
      msg == IF post = 0 THEN <<>> ELSE composeReply(SuggestionOf(usable, post))
  IN  IF msg = <<>> THEN RReturn(r)
      ELSE [r EXCEPT !.pc = "reply", !.target = post, !.message = msg]

\* quarterHourly after suggestBooksForRequests: select one post, compose its reply
AfterSuggestions(r) ==
  LET post == selectBookRequest(r.suggestions)
      msg == IF post = 0 THEN <<>> ELSE composeReply(SuggestionOf(r.suggestions, post))
  IN  IF msg = <<>> THEN RReturn(r)
      ELSE [r EXCEPT !.pc = "reply", !.target = post, !.message = msg]

\* replyLatestBookSuggestions: the end of one iteration of the loop over the posts
NextRequest(r) ==
  IF r.k < Len(r.newPosts) THEN [r EXCEPT !.pc = "suggest", !.k = r.k + 1]
  ELSE RReturn(r)

\* a new request post appears in the subreddit
RSubmit ==
  /\ Len(subs) < MaxSubs
  /\ subs' = Append(subs, [created |-> now, replies |-> 0, returned |-> 0])
  /\ UNCHANGED <<selectOne, rr, rruns>>
  /\ UNCHANGED <<dvars, xvars, avars>>

\* a second passes
RTick ==
  /\ now < MaxClock
  /\ now' = now + 1
  /\ UNCHANGED <<settings, replies, bulkRows, xr, sent, xruns, xlimit, sweep>>
  /\ UNCHANGED <<dvars, rvars, avars>>

\* quarterHourly starts: the SELECT of the watermark
RInvoke(i) ==
  /\ rr[i].pc = "idle"
  /\ rruns < MaxRRuns
  /\ rruns' = rruns + 1
  /\ rr' = [rr EXCEPT ![i] = [IdleRedditRun EXCEPT !.pc = "fetch",
                                                   !.lastChecked = LastChecked]]
  /\ UNCHANGED <<selectOne, subs>>
  /\ UNCHANGED <<dvars, xvars, avars>>

\* getNew, the filter and the slice, and the time of the new watermark;
\* ok = FALSE is a failed call to Reddit, which rejects quarterHourly
RFetch(i, ok) ==
  /\ rr[i].pc = "fetch"
  /\ IF ~ok
       THEN rr' = [rr EXCEPT ![i] = RThrow([rr[i] EXCEPT !.callFailed = TRUE])]
       ELSE rr' = [rr EXCEPT ![i] = [rr[i] EXCEPT !.pc = "mark", !.stamp = now,
                                       !.newPosts = NewPosts(rr[i].lastChecked)]]
  /\ UNCHANGED <<selectOne, subs, rruns>>
  /\ UNCHANGED <<dvars, xvars, avars>>

\* the upsert of the watermark, after which getLatestBookRequests returns
\* newPosts; ok = FALSE is a failed statement, which rejects quarterHourly
RMark(i, ok) ==
  /\ rr[i].pc = "mark"
  /\ IF ~ok
       THEN /\ rr' = [rr EXCEPT ![i] = RThrow([rr[i] EXCEPT !.callFailed = TRUE])]
            /\ UNCHANGED <<settings, subs>>
       ELSE /\ settings' = SetSetting(settings, WatermarkKey, rr[i].stamp)
            /\ subs' = [x \in 1..Len(subs) |->
                         IF \E y \in 1..Len(rr[i].newPosts) : rr[i].newPosts[y] = x
                           THEN [subs[x] EXCEPT !.returned = @ + 1]
                           ELSE subs[x]]
            /\ rr' = [rr EXCEPT ![i] =
                 LET r == rr[i]
                 IN  IF r.newPosts # <<>> THEN [r EXCEPT !.pc = "suggest", !.k = 1]
                     ELSE IF selectOne THEN AfterSuggestions(r)
                     ELSE RReturn(r)]
  /\ UNCHANGED <<now, replies, bulkRows, xr, sent, xruns, xlimit, sweep>>
  /\ UNCHANGED <<selectOne, rruns>>
  /\ UNCHANGED <<dvars, avars>>

\* suggestBooks for the next post, with the content the model answered. With
\* selectBookRequest the answer is kept when it has books, and the last post is
\* followed by the selection; without it the reply is composed at once
RSuggest(i, resp) ==
  /\ rr[i].pc = "suggest"
  /\ LET post == rr[i].newPosts[rr[i].k]
         r == [rr[i] EXCEPT !.got = Append(@, [post |-> post, resp |-> resp])]
     IN  rr' = [rr EXCEPT ![i] =
           IF selectOne
             THEN LET s == [r EXCEPT !.suggestions =
                              IF HasSuggestions(resp)
                                THEN Append(@, [post |-> post, resp |-> resp]) ELSE @]
                  IN  IF s.k < Len(s.newPosts) THEN [s EXCEPT !.k = s.k + 1]
                      ELSE AfterSuggestions(s)
             ELSE IF composeReply(resp) = <<>> THEN NextRequest(r)
             ELSE [r EXCEPT !.pc = "reply", !.target = post,
                            !.message = composeReply(resp)]]
  /\ UNCHANGED <<selectOne, subs, rruns>>
  /\ UNCHANGED <<dvars, xvars, avars>>

\* post.reply(replyMessage); ok = FALSE is a failed call: postBookSuggestion
\* rethrows it, the loop of replyLatestBookSuggestions logs it and goes on
RReply(i, ok) ==
  /\ rr[i].pc = "reply"
  /\ LET r == [rr[i] EXCEPT !.replyCalls = @ + 1,
                            !.made = IF ok THEN @ + 1 ELSE @,
                            !.repliedTo = IF ok THEN @ \cup {rr[i].target} ELSE @,
                            !.callFailed = ~ok]
     IN  rr' = [rr EXCEPT ![i] =
           IF selectOne
             THEN IF ok THEN [r EXCEPT !.pc = "upvote"] ELSE RThrow(r)
             ELSE NextRequest(r)]
  /\ subs' = IF ok THEN [subs EXCEPT ![rr[i].target].replies = @ + 1] ELSE subs
  /\ UNCHANGED <<selectOne, rruns>>
  /\ UNCHANGED <<dvars, xvars, avars>>

\* post.upvote() of postBookSuggestion; a failed call is rethrown
RUpvote(i, ok) ==
  /\ rr[i].pc = "upvote"
  /\ LET r == [rr[i] EXCEPT !.upvoteCalls = @ + 1, !.callFailed = ~ok]
     IN  rr' = [rr EXCEPT ![i] = IF ok THEN RReturn(r) ELSE RThrow(r)]
  /\ UNCHANGED <<selectOne, subs, rruns>>
  /\ UNCHANGED <<dvars, xvars, avars>>

(* ------------------------------ Init ---------------------------------- *)
\* no outreach: the X pipeline tables are empty and no invocation is running
XIdle ==
  /\ now = 0
  /\ settings = <<>>
  /\ replies = {}
  /\ bulkRows = 0
  /\ xr = [i \in Procs |-> IdleRun]
  /\ sent = [u \in Users |-> <<>>]
  /\ xruns = 0
  /\ xlimit = MaxXRuns
  /\ sweep = <<>>

Init == InitDaily /\ XIdle /\ RIdle /\ Authorized

(* ------------- invocations one at a time (the cron cadence) ----------- *)
Next ==
  \/ Invoke(1)
  \/ SchedCheck(1)
  \/ SchedSelect(1)
  \/ SchedInsert(1)
  \/ \E ok \in BOOLEAN : PubFetch(1, ok)
  \/ \E ok \in BOOLEAN : PubCall(1, ok)
  \/ \E ok \in BOOLEAN, commentOk \in BOOLEAN : PubUpdate(1, ok, commentOk)
  \/ NextDay

Spec == Init /\ [][Next]_vars

(* ---------------------- overlapping invocations ----------------------- *)
NextRace ==
  \/ \E i \in Procs : Invoke(i) /\ (\A j \in 1..(i - 1) : proc[j].step # 0)
  \/ \E i \in Procs : SchedCheck(i)
  \/ \E i \in Procs : SchedSelect(i)
  \/ \E i \in Procs : SchedInsert(i)
  \/ \E i \in Procs, ok \in BOOLEAN : PubFetch(i, ok)
  \/ \E i \in Procs, ok \in BOOLEAN : PubCall(i, ok)
  \/ \E i \in Procs, ok \in BOOLEAN, commentOk \in BOOLEAN : PubUpdate(i, ok, commentOk)
  \/ NextDay

\* requests to the two-platform route that may overlap, over a one-book catalog
InitRace == Init /\ platforms = CronPlatforms /\ books = {1} /\ ~fbQuotes

SpecRace == InitRace /\ [][NextRace]_vars

(* -------------------- the quarter-hourly trigger ---------------------- *)
\* the times between two invocations: none, a quarter, an hour, 30 days,
\* a quarter more than 30 days
Elapsed == {0, 1, 4, Cooldown, Cooldown + 1}

InitX ==
  /\ platforms = DailyPlatforms
  /\ \E nb \in 0..MaxCatalog : books = 1..nb
  /\ quoteBook = <<>>
  /\ fbQuotes = FALSE
  /\ posts = <<>>
  /\ today = 0
  /\ proc = [i \in Procs |-> IdleProc]
  /\ lastSched = [c \in Clients |-> NoSched]
  /\ pubCount = <<>>
  /\ runs = 0
  /\ now = 0
  /\ settings = <<>>
  /\ replies = {}
  /\ bulkRows \in {0, ReplyCap - 1, ReplyCap}
  /\ xr = [i \in Procs |-> IdleRun]
  /\ sent = [u \in Users |-> <<>>]
  /\ xruns = 0
  /\ xlimit = MaxXRuns
  /\ sweep = <<>>
  /\ RIdle
  /\ Authorized

NextX ==
  \/ \E dt \in Elapsed : XInvoke(1, dt)
  \/ XTotal(1)
  \/ XHour(1)
  \/ XFetch(1)
  \/ \E ok \in BOOLEAN, found \in SUBSET (1..MaxTweets) : XSearch(1, ok, found)
  \/ \E ok \in BOOLEAN : XKnown(1, ok)
  \/ \E ok \in BOOLEAN : XReply(1, ok)
  \/ \E ok \in BOOLEAN : XRecord(1, ok)
  \/ XAdvance(1)

SpecX == InitX /\ [][NextX]_vars

(* ------------- the hourly sweep: runs that find no tweet -------------- *)
\* catalog sizes beyond the small ones: the size of the documented example and
\* the first size that four chunks of MaxChunk books do not cover
BigCatalogs == {120, 4 * MaxChunk + 1}

InitSweep ==
  /\ platforms = DailyPlatforms
  /\ \E nb \in (0..MaxSweepBooks) \cup BigCatalogs : books = 1..nb
  /\ quoteBook = <<>>
  /\ fbQuotes = FALSE
  /\ posts = <<>>
  /\ today = 0
  /\ proc = [i \in Procs |-> IdleProc]
  /\ lastSched = [c \in Clients |-> NoSched]
  /\ pubCount = <<>>
  /\ runs = 0
  /\ now = 0
  /\ settings = <<>>
  /\ replies = {}
  /\ bulkRows = 0
  /\ xr = [i \in Procs |-> IdleRun]
  /\ sent = [u \in Users |-> <<>>]
  /\ xruns = 0
  /\ xlimit = MaxSweepRuns
  /\ sweep = <<>>
  /\ RIdle
  /\ Authorized

\* the trigger fires up to four times an hour; every search comes back empty or fails
NextSweep ==
  \/ \E dt \in {0, 1} : XInvoke(1, dt)
  \/ XTotal(1)
  \/ XHour(1)
  \/ XFetch(1)
  \/ \E ok \in BOOLEAN : XSearch(1, ok, {})
  \/ XAdvance(1)

SpecSweep == InitSweep /\ [][NextSweep]_vars

(* --------------- three days of the daily route, one book -------------- *)
InitStale ==
  /\ platforms = CronPlatforms
  /\ books = {1}
  /\ quoteBook = <<1>>
  /\ fbQuotes = FALSE
  /\ posts = <<>>
  /\ today = 0 - 1
  /\ proc = [i \in Procs |-> IdleProc]
  /\ lastSched = [c \in Clients |-> NoSched]
  /\ pubCount = <<>>
  /\ runs = 0
  /\ XIdle
  /\ RIdle
  /\ Authorized

SpecStale == InitStale /\ [][Next]_vars

(* ------------------ consecutive runs with failing calls -------------- *)
InitRetry == InitSweep /\ Cardinality(books) = MaxCatalog

\* a search returns nothing or one tweet; every call may fail
NextRetry ==
  \/ \E dt \in {0, 1} : XInvoke(1, dt)
  \/ XTotal(1)
  \/ XHour(1)
  \/ XFetch(1)
  \/ \E ok \in BOOLEAN, found \in {{}} \cup {{t} : t \in 1..MaxTweets} : XSearch(1, ok, found)
  \/ \E ok \in BOOLEAN : XKnown(1, ok)
  \/ \E ok \in BOOLEAN : XReply(1, ok)
  \/ \E ok \in BOOLEAN : XRecord(1, ok)
  \/ XAdvance(1)

SpecRetry == InitRetry /\ [][NextRetry]_vars

(* ------------------- the cursor over a shrinking catalog -------------- *)
\* rows of books are deleted: the n rows with the lowest ids remain
CatalogShrinks(n) ==
  /\ n < Cardinality(books)
  /\ books' = 1..n
  /\ UNCHANGED <<platforms, quoteBook, fbQuotes, posts, today, proc, lastSched, pubCount, runs>>
  /\ UNCHANGED <<xvars, rvars, avars>>

InitShrink == InitSweep /\ Cardinality(books) \in 1..MaxSweepBooks

NextShrink ==
  \/ \E dt \in {0, 1} : XInvoke(1, dt)
  \/ XTotal(1)
  \/ XHour(1)
  \/ XFetch(1)
  \/ \E ok \in BOOLEAN : XSearch(1, ok, {})
  \/ XAdvance(1)
  \/ \E n \in 1..MaxSweepBooks : CatalogShrinks(n)

SpecShrink == InitShrink /\ [][NextShrink]_vars

(* --------------- one run over large search results -------------------- *)
\* a catalog of one book (one search per run) or of MaxCatalog books (chunks
\* of several books), an empty replies table, one invocation
InitBatch ==
  /\ platforms = DailyPlatforms
  /\ books \in {{1}, 1..MaxCatalog}
  /\ quoteBook = <<>>
  /\ fbQuotes = FALSE
  /\ posts = <<>>
  /\ today = 0
  /\ proc = [i \in Procs |-> IdleProc]
  /\ lastSched = [c \in Clients |-> NoSched]
  /\ pubCount = <<>>
  /\ runs = 0
  /\ now = 0
  /\ settings = <<>>
  /\ replies = {}
  /\ bulkRows \in {0, ReplyCap - 1, ReplyCap}
  /\ xr = [i \in Procs |-> IdleRun]
  /\ sent = [u \in Users |-> <<>>]
  /\ xruns = 0
  /\ xlimit = 1
  /\ sweep = <<>>
  /\ RIdle
  /\ Authorized

\* the search results: the first n tweets, the last n tweets, or one tweet
BatchFound ==
  {1..n : n \in 0..MaxTopTweets} \cup {n..MaxTopTweets : n \in 1..MaxTopTweets}
    \cup {{t} : t \in 1..MaxTopTweets}

\* at most MaxFailures rejected replies and MaxFailures rejected upserts per run
NextBatch ==
  \/ XInvoke(1, 0)
  \/ XTotal(1)
  \/ XHour(1)
  \/ XFetch(1)
  \/ \E ok \in BOOLEAN, found \in BatchFound : XSearch(1, ok, found)
  \/ \E ok \in BOOLEAN : XKnown(1, ok)
  \/ \E ok \in BOOLEAN : XReply(1, ok) /\ (ok \/ xr[1].failed.reply < MaxFailures)
  \/ \E ok \in BOOLEAN : XRecord(1, ok) /\ (ok \/ xr[1].failed.record < MaxFailures)
  \/ XAdvance(1)

SpecBatch == InitBatch /\ [][NextBatch]_vars

(* ---------------- overlapping quarterHourly invocations --------------- *)
\* one book, whose search results are the tweets of user 1
InitXRace == InitX /\ books = {1} /\ bulkRows = 0

RaceTweets == {t \in 1..MaxTweets : TweetAuthor(t) = 1}

NextXRace ==
  \/ \E i \in Procs, dt \in {0, 1} :
        XInvoke(i, dt) /\ (\A j \in 1..(i - 1) : xr[j].pc # "idle")
  \/ \E i \in Procs : XTotal(i)
  \/ \E i \in Procs : XHour(i)
  \/ \E i \in Procs : XFetch(i)
  \/ \E i \in Procs, ok \in BOOLEAN, found \in SUBSET RaceTweets : XSearch(i, ok, found)
  \/ \E i \in Procs, ok \in BOOLEAN : XKnown(i, ok)
  \/ \E i \in Procs, ok \in BOOLEAN : XReply(i, ok)
  \/ \E i \in Procs, ok \in BOOLEAN : XRecord(i, ok)
  \/ \E i \in Procs : XAdvance(i)

SpecXRace == InitXRace /\ [][NextXRace]_vars

(* ------------- the suggestion pipeline, one run at a time ------------- *)
InitReddit ==
  /\ InitDaily
  /\ platforms = CronPlatforms
  /\ books = {1, 2}
  /\ quoteBook = <<>>
  /\ ~fbQuotes
  /\ now = 1
  /\ settings = <<>>
  /\ replies = {}
  /\ bulkRows = 0
  /\ xr = [i \in Procs |-> IdleRun]
  /\ sent = [u \in Users |-> <<>>]
  /\ xruns = 0
  /\ xlimit = MaxXRuns
  /\ sweep = <<>>
  /\ selectOne \in BOOLEAN
  /\ subs = <<>>
  /\ rr = [i \in Procs |-> IdleRedditRun]
  /\ rruns = 0
  /\ Authorized

NextReddit ==
  \/ RSubmit
  \/ RTick
  \/ RInvoke(1)
  \/ \E ok \in BOOLEAN : RFetch(1, ok)
  \/ \E ok \in BOOLEAN : RMark(1, ok)
  \/ \E resp \in Responses : RSuggest(1, resp)
  \/ \E ok \in BOOLEAN : RReply(1, ok)
  \/ \E ok \in BOOLEAN : RUpvote(1, ok)

SpecReddit == InitReddit /\ [][NextReddit]_vars

(* ------------------- overlapping pipeline invocations ----------------- *)
\* the answers of a model that follows its instructions
RaceResponses ==
  {EmptyArray, WithBooks(<<Entry(45, Title(1, TRUE), TRUE)>>)}

NextRedditRace ==
  \/ RSubmit
  \/ RTick
  \/ \E i \in Procs : RInvoke(i) /\ (\A j \in 1..(i - 1) : rr[j].pc # "idle")
  \/ \E i \in Procs : RFetch(i, TRUE)
  \/ \E i \in Procs : RMark(i, TRUE)
  \/ \E i \in Procs, resp \in RaceResponses : RSuggest(i, resp)
  \/ \E i \in Procs : RReply(i, TRUE)
  \/ \E i \in Procs : RUpvote(i, TRUE)

SpecRedditRace == InitReddit /\ [][NextRedditRace]_vars

(* ------------- more request posts than one run considers -------------- *)
\* the subreddit holds one request post more than the per-run limit
InitBacklog ==
  /\ InitDaily
  /\ platforms = CronPlatforms
  /\ books = {1}
  /\ quoteBook = <<>>
  /\ ~fbQuotes
  /\ now \in 1..2
  /\ settings = <<>>
  /\ replies = {}
  /\ bulkRows = 0
  /\ xr = [i \in Procs |-> IdleRun]
  /\ sent = [u \in Users |-> <<>>]
  /\ xruns = 0
  /\ xlimit = MaxXRuns
  /\ sweep = <<>>
  /\ selectOne \in BOOLEAN
  /\ subs = [x \in 1..(FetchLimit + 1) |-> [created |-> 1, replies |-> 0, returned |-> 0]]
  /\ rr = [i \in Procs |-> IdleRedditRun]
  /\ rruns = 0
  /\ Authorized

\* the model answers [] or one book of the store; the revision that replies
\* to every post is followed with the second answer only
NextBacklog ==
  \/ RTick
  \/ RInvoke(1)
  \/ \E ok \in BOOLEAN : RFetch(1, ok)
  \/ \E ok \in BOOLEAN : RMark(1, ok)
  \/ \E resp \in RaceResponses : RSuggest(1, resp) /\ (selectOne \/ HasSuggestions(resp))
  \/ \E ok \in BOOLEAN : RReply(1, ok)
  \/ \E ok \in BOOLEAN : RUpvote(1, ok)

SpecBacklog == InitBacklog /\ [][NextBacklog]_vars

(* ------------- overlapping invocations and the cursor ----------------- *)
\* a catalog of several chunks; every search comes back empty
InitSweepRace == InitSweep /\ books = 1..MaxCatalog

NextSweepRace ==
  \/ \E i \in Procs, dt \in {0, 1} :
        XInvoke(i, dt) /\ (\A j \in 1..(i - 1) : xr[j].pc \notin {"idle", "done"})
  \/ \E i \in Procs : XTotal(i)
  \/ \E i \in Procs : XHour(i)
  \/ \E i \in Procs : XFetch(i)
  \/ \E i \in Procs : XSearch(i, TRUE, {})
  \/ \E i \in Procs : XAdvance(i)

SpecSweepRace == InitSweepRace /\ [][NextSweepRace]_vars

(* ------------------ the two trigger routes and their header ----------- *)
\* GET of the daily route with a header that is not the bearer value: status 401
Unauthorized(i) ==
  /\ proc[i].step = 0
  /\ runs < MaxRuns
  /\ runs' = runs + 1
  /\ proc' = [proc EXCEPT ![i] = [IdleProc EXCEPT !.outcome = "unauthorized"]]
  /\ UNCHANGED <<platforms, books, quoteBook, fbQuotes, posts, today, lastSched, pubCount>>
  /\ UNCHANGED <<xvars, rvars, avars>>

\* GET of the daily route: the header test, then the cycle
DailyGET(i) == IF Authorized THEN Invoke(i) ELSE Unauthorized(i)

\* GET of the quarter-hour route: quarterHourly of the X client, with no header test
QuarterGET(i) == XInvoke(i, 0)

\* a two-platform route over a one-book catalog; the trigger's header is any of Headers
InitAuth ==
  /\ InitDaily
  /\ platforms = CronPlatforms
  /\ books = {1}
  /\ ~fbQuotes
  /\ XIdle
  /\ RIdle
  /\ authHeader \in Headers

\* requests to both routes, one at a time per route; every search comes back
\* empty or fails
NextAuth ==
  \/ DailyGET(1)
  \/ SchedCheck(1)
  \/ SchedSelect(1)
  \/ SchedInsert(1)
  \/ \E ok \in BOOLEAN : PubFetch(1, ok)
  \/ \E ok \in BOOLEAN : PubCall(1, ok)
  \/ \E ok \in BOOLEAN, commentOk \in BOOLEAN : PubUpdate(1, ok, commentOk)
  \/ NextDay
  \/ QuarterGET(1)
  \/ XTotal(1)
  \/ XHour(1)
  \/ XFetch(1)
  \/ \E ok \in BOOLEAN : XSearch(1, ok, {})
  \/ XAdvance(1)

SpecAuth == InitAuth /\ [][NextAuth]_vars

(* ========================= checked properties ========================= *)
\* scheduled posts of client c's platform dated d
ScheduledFor(c, d) ==
  {i \in PostIds : /\ posts[i].status = "scheduled"
                   /\ posts[i].platform = PlatformTag(c)
                   /\ posts[i].date = d}

\* C1: after two schedulePost calls of one client on one day, the first of which
\* found a content unit and no post scheduled for tomorrow, exactly one scheduled
\* post of that platform is dated tomorrow and the second call inserted nothing
\* and returned the empty list.
C1_IdempotentScheduling ==
  \A c \in Clients :
    (lastSched[c].calls = 2 /\ lastSched[c].pre) =>
      /\ Cardinality(ScheduledFor(c, today + 1)) = 1
      /\ lastSched[c].inserted = 0
      /\ lastSched[c].returned = <<>>

C1_Witness ==
  \A c \in Clients : lastSched[c].calls = 2 /\ lastSched[c].pre

\* C2: the store never holds two scheduled posts of one platform for one day,
\* also when schedulePost invocations overlap.
C2_OneScheduledPerDay ==
  \A c \in Clients : \A d \in 0..(MaxDay + 1) : Cardinality(ScheduledFor(c, d)) <= 1

\* C3: no post is published on its platform more than once, whatever failures
\* abort a Publisher run before it is run again.
C3_PublishedAtMostOnce ==
  \A id \in PostIds : pubCount[id] <= 1

\* C4: a post's status goes from scheduled to published only in a step of a
\* Publisher run whose platform publish call for that post succeeded.
C4_PublishedOnlyOnSuccess ==
  [][\A id \in PostIds :
       (posts[id].status = "scheduled" /\ posts'[id].status = "published") =>
         \E i \in Procs : /\ proc[i].pc = "update"
                          /\ proc[i].batch[proc[i].idx] = id
                          /\ proc[i].callOk]_vars

\* C5: once a platform publish call failed in a Publisher run, that run is over
\* (no later post of the batch is attempted) and the error reached the caller.
C5_PublishFailurePropagates ==
  \A i \in Procs : proc[i].failed => (proc[i].step = 0 /\ proc[i].outcome = "error")

\* the link-posting clients
IsLinkClient(c) == c = "reddit" \/ (c = "Facebook" /\ ~fbQuotes)

\* C6: on a link platform no book is scheduled a second time while some book
\* has never been scheduled, whichever of the tied rows the store returns first.
C6_FairRotation ==
  \A c \in Clients : IsLinkClient(c) =>
    \A b \in books : LinkPostCount(b, c) >= 2 => \A b2 \in books : LinkPostCount(b2, c) >= 1

C6_Witness ==
  \E c \in Clients : /\ IsLinkClient(c)
                     /\ Cardinality(books) >= 2
                     /\ \A b \in books : LinkPostCount(b, c) = 1

\* posts of client c's platform that carry quote q
QuotePostsOn(q, c) ==
  Cardinality({i \in PostIds : posts[i].quote = q /\ posts[i].platform = PlatformTag(c)})

\* C7: on a quote platform no quote is scheduled a second time while some quote
\* of the catalog has never been scheduled there.
C7_QuoteRotation ==
  \A c \in Clients : IsQuoteClient(c) =>
    \A q \in quotes : QuotePostsOn(q, c) >= 2 => \A q2 \in quotes : QuotePostsOn(q2, c) >= 1

\* C8: a schedulePost call that inserted a post returned a list holding that
\* post, and a call that inserted nothing returned the empty list.
C8_ReturnsInsertedRow ==
  \A c \in Clients :
    /\ lastSched[c].inserted # 0 => lastSched[c].returned = <<lastSched[c].inserted>>
    /\ lastSched[c].inserted = 0 => lastSched[c].returned = <<>>

\* C9: no user is sent two replies less than 30 days apart, within one
\* quarterHourly run or across runs.
C9_OneReplyPerCooldown ==
  \A u \in Users : Len(sent[u]) = 2 => sent[u][2] - sent[u][1] >= Cooldown

\* C10: a quarterHourly run that counted at least ReplyCap replies in the last
\* 24 hours returned repliesInThisRun = 0 with a note, made no search and no
\* reply request, and left system_settings and the replies table as it found them.
C10_CapSkipsRun ==
  \A i \in Procs :
    (xr[i].pc = "done" /\ xr[i].last24 >= ReplyCap) =>
      /\ xr[i].repliesMade = 0
      /\ xr[i].errors # <<>>
      /\ xr[i].calls = [search |-> 0, reply |-> 0]
      /\ settings = xr[i].entry.settings
      /\ replies = xr[i].entry.replies

C10_Witness ==
  /\ xr[1].pc = "done"
  /\ xr[1].last24 = ReplyCap
  /\ replies # {}
  /\ "book_search_offset" \in DOMAIN settings

\* the ids of the books in the chunks a..b of the current sweep
SweptBooks(a, b) == UNION {{sweep[k].rows[x] : x \in 1..Len(sweep[k].rows)} : k \in a..b}

\* C11: a completed quarterHourly run that fetched a non-empty chunk at offset o
\* leaves o + chunk stored, or 0 when o + chunk reaches totalBooks, with
\* chunk = min(50, ceil(totalBooks / 4)); with 120 books the runs of one hour
\* fetch at offsets 0, 30, 60, 90, 0 and the fifth chunk starts at the first book.
C11_CursorWraparound ==
  /\ (xr[1].pc = "done" /\ xr[1].booksProcessed > 0) =>
       LET total == Cardinality(books)
           quarter == IF total % 4 = 0 THEN total \div 4 ELSE (total \div 4) + 1
           chunk == IF quarter > 50 THEN 50 ELSE quarter
           o == sweep[Len(sweep)].offset
       IN  settings["book_search_offset"] =
             NumberToString(IF o + chunk >= total THEN 0 ELSE o + chunk)
  /\ Cardinality(books) = 120 =>
       \A k \in 1..Len(sweep) :
         /\ sweep[k].offset = <<0, 30, 60, 90, 0>>[k]
         /\ k = 5 => sweep[k].rows[1] = 1

C11_Witness ==
  /\ Cardinality(books) = 120
  /\ Len(sweep) = 5
  /\ xr[1].pc = "done"

\* C12: the first four chunks fetched after an hour change hold every book of
\* the catalog.
C12_SweepCoversCatalog ==
  Len(sweep) >= 4 => SweptBooks(1, 4) = books

\* C13: the first four chunks fetched after an hour change are pairwise
\* disjoint: no book is fetched twice.
C13_SweepWithoutRepeat ==
  \A a, b \in 1..Min(4, Len(sweep)) : a < b => SweptBooks(a, a) \cap SweptBooks(b, b) = {}

\* the step in which invocation i completes the upsert for the tweet it replied to
Recorded(i) == xr[i].pc = "record" /\ xr'[i].repliesMade = xr[i].repliesMade + 1

\* C14: the replies table never holds two rows of one user, also when
\* invocations overlap; the table changes only by a completed upsert, and after
\* it the user's single row carries the time and the post of that attempt.
C14_ReplyUpsert ==
  [][/\ \A u \in Users : Cardinality({r \in replies' : r.user_id = u}) <= 1
     /\ \A i \in Procs : Recorded(i) =>
          LET t == xr[i].top[xr[i].j]
              u == TweetAuthor(t)
          IN  {r \in replies' : r.user_id = u}
                = {[user_id |-> u, replied_at |-> now, post_id |-> t]}
     /\ replies' # replies => \E i \in Procs : Recorded(i)]_vars

C14_Witness ==
  /\ \A i \in Procs : xr[i].pc = "advance" /\ xr[i].repliesMade >= 1
  /\ Cardinality(replies) = 1

\* the elements of a sequence
Range(seq) == {seq[x] : x \in 1..Len(seq)}

\* invocation i has the result of a successful known-user lookup and has not
\* replied yet
LookupDone(i) ==
  /\ xr[i].pc \in {"reply", "advance"}
  /\ xr[i].allPosts # <<>>
  /\ xr[i].calls.reply = 0
  /\ "lookup" \notin Range(xr[i].errors)

\* C15: the known-user filter keeps a candidate exactly when its author has no
\* row in replies whose replied_at lies within the last 30 days.
C15_KnownUserFilter ==
  \A i \in Procs : LookupDone(i) =>
    \A t \in Range(xr[i].allPosts) :
      t \in Range(xr[i].fresh) <=>
        ~\E r \in replies : r.user_id = TweetAuthor(t) /\ now - r.replied_at <= Cooldown

C15_Witness ==
  /\ LookupDone(1)
  /\ Range(xr[1].fresh) # Range(xr[1].allPosts)
  /\ xr[1].fresh # <<>>

\* the score under which the system prompt tells the model to answer []
Threshold == 34

\* C16: one invocation of the suggestion pipeline replies to at most one
\* submission, however many new request posts have valid suggestions
C16_OneReplyPerInvocation == \A i \in Procs : rr[i].made <= 1

\* the answer is [], or books that all score under the threshold
EmptyOrLow(r) ==
  \/ r = EmptyArray
  \/ /\ HasSuggestions(r)
     /\ \A x \in 1..Len(r.books) :
          ~r.books[x].isNull /\ r.books[x].score > 0 /\ r.books[x].score < Threshold

\* C17: when every answer of the model in an invocation is [] or has only
\* scores under 3.4, the composed reply is empty and the invocation makes no
\* reply call and no upvote call
C17_LowScoresNoReply ==
  \A i \in Procs :
    (rr[i].got # <<>> /\ \A x \in 1..Len(rr[i].got) : EmptyOrLow(rr[i].got[x].resp))
      => rr[i].message = <<>> /\ rr[i].replyCalls = 0 /\ rr[i].upvoteCalls = 0

\* the stored watermark, 0 before the first write
Watermark == GetSetting(settings, WatermarkKey, 0)

\* C18: the stored watermark never decreases, over any interleaving of runs,
\* and a run that completes the fetch step writes it, with or without new posts
C18_WatermarkMonotonic ==
  [][/\ Watermark' >= Watermark
     /\ \A i \in Procs :
          (rr[i].pc = "mark" /\ rr'[i].pc # "mark" /\ rr'[i].outcome # "error")
            => WatermarkKey \in DOMAIN settings' /\ Watermark' = rr[i].stamp]_vars

\* C19: no request post is returned as a candidate by two runs, and no
\* submission receives more than one reply, overlapping invocations included
C19_NoReprocessing ==
  \A s \in 1..Len(subs) : subs[s].returned <= 1 /\ subs[s].replies <= 1

\* the answer is not JSON, has not the expected shape (null, no books array, an
\* element that is null or lacks a field), or names no title of the store
Unusable(r) ==
  \/ ParseThrows(r)
  \/ r.kind # "object"
  \/ ~r.hasBooks
  \/ \E x \in 1..Len(r.books) :
       \/ r.books[x].isNull
       \/ r.books[x].score = 0
       \/ r.books[x].title.id = 0
       \/ ~r.books[x].hook
  \/ \A x \in 1..Len(r.books) : ~TitleInStore(r.books[x].title)

\* C20: an unusable answer of the model never makes the pipeline throw: the
\* run fails only on a failed call, the post gets no reply from the run, and a
\* run that returns has asked the model about each of its posts
C20_UnusableAnswerIsNoSuggestion ==
  \A i \in Procs :
    /\ rr[i].outcome = "error" => rr[i].callFailed
    /\ rr[i].outcome = "ok" => Len(rr[i].got) = Len(rr[i].newPosts)
    /\ \A x \in 1..Len(rr[i].got) :
         Unusable(rr[i].got[x].resp) => rr[i].got[x].post \notin rr[i].repliedTo

\* the number of entries e of an error list
NumOf(seq, e) == Cardinality({x \in 1..Len(seq) : seq[x] = e})

\* the loop over the books of the chunk is over
Searched(i) ==
  xr[i].booksProcessed > 0 /\ xr[i].pc \in {"known", "reply", "record", "advance", "done"}

\* C21: a failed search or a failed reply never ends the run: every book of
\* the chunk is searched whatever searches failed, the run goes on to its
\* summary, and the error list has one entry for each failed search
C21_FailuresAreReported ==
  \A i \in Procs :
    /\ Searched(i) => xr[i].calls.search = xr[i].booksProcessed
    /\ NumOf(xr[i].errors, "search") = xr[i].failed.search
    /\ xr[i].pc = "done" =>
         xr[i].failed.search + xr[i].failed.reply <= Len(xr[i].errors)

\* a run returned its summary after its first search failed, its second
\* search found a candidate and the reply to it was rejected
C21_Witness ==
  /\ xr[1].pc = "done"
  /\ xr[1].calls.search = 2
  /\ xr[1].failed.search = 1
  /\ xr[1].calls.reply = 1
  /\ xr[1].failed.reply = 1

\* C22: on both trigger routes a request whose header is not the bearer value
\* is answered as unauthorized and reads or writes no table and calls no platform
C22_UnauthorizedDoesNothing ==
  ~Authorized =>
    /\ \A i \in Procs : proc[i].step = 0 /\ proc[i].outcome \in {"none", "unauthorized"}
    /\ \A i \in Procs : xr[i].pc = "idle"
    /\ posts = <<>> /\ settings = <<>> /\ replies = {}

\* no invocation is between its first statement and its return
XQuiet == \A i \in Procs : xr[i].pc \in {"idle", "done"}

\* C23: overlapping invocations of one hour leave the cursor as sequential ones
\* would: each chunk fetched in the hour starts where the chunk before it
\* ended (modulo the wrap), so no two runs fetch at the same offset in a
\* row, and once all have returned the stored offset is one chunk past the
\* last chunk fetched
C23_NoLostCursorUpdate ==
  LET total == Cardinality(books)
      chunk == ChunkSize(total)
  IN  /\ \A x \in 1..(Len(sweep) - 1) :
           sweep[x + 1].offset = NewOffset(sweep[x].offset, chunk, total)
      /\ (XQuiet /\ sweep # <<>>) =>
           GetSetting(settings, "book_search_offset", 0)
             = NewOffset(sweep[Len(sweep)].offset, chunk, total)

\* C24: the summary's repliesInThisRun is the number of reply calls of the run
\* that succeeded, every failed reply call adds an entry to the error list,
\* and a failed reply call does not stop the replies to the remaining candidates
C24_RepliesCounted ==
  \A i \in Procs :
    /\ xr[i].pc \in {"advance", "done"} =>
         /\ xr[i].repliesMade = xr[i].calls.reply - xr[i].failed.reply
         /\ xr[i].failed.reply <= NumOf(xr[i].errors, "reply")
    /\ xr[i].pc = "advance" => xr[i].calls.reply = Len(xr[i].top)

\* posts of client c's platform that carry a quote of book b
BookQuotePostsOn(b, c) ==
  Cardinality({i \in PostIds : /\ posts[i].quote \in quotes
                               /\ quoteBook[posts[i].quote] = b
                               /\ posts[i].platform = PlatformTag(c)})

\* C25: the quote a quote platform selects belongs to a book with the fewest
\* quote posts on that platform among the books that have quotes, has the
\* fewest posts on that platform among the quotes of its book, and the highest
\* popularity among those; posts of other platforms do not count
C25_QuoteSelection ==
  \A i \in Procs :
    (proc[i].pc = "insert" /\ IsQuoteClient(ClientOf(proc[i]))) =>
      LET c == ClientOf(proc[i])
          q == proc[i].item
          b == quoteBook[q]
      IN  /\ \A q2 \in quotes : BookQuotePostsOn(b, c) <= BookQuotePostsOn(quoteBook[q2], c)
          /\ \A q2 \in quotes : quoteBook[q2] = b => QuotePostsOn(q, c) <= QuotePostsOn(q2, c)
          /\ \A q2 \in quotes :
               (quoteBook[q2] = b /\ QuotePostsOn(q2, c) = QuotePostsOn(q, c))
                 => Popularity(q) >= Popularity(q2)

\* C26: a run that finds the hour of day different from the stored
\* book_search_hour (the default -1 of the first read included) stores offset 0
\* and the current hour before it fetches, and its chunk starts at the first
\* book; a run that finds the hour unchanged writes neither setting in that
\* step and fetches at the stored offset
C26_HourReset ==
  [][/\ (xr[1].pc = "hour" /\ xr'[1].pc = "fetch") =>
          IF HourOf(now) # GetSetting(settings, "book_search_hour", 0 - 1)
            THEN /\ DOMAIN settings' = {"book_search_hour", "book_search_offset"}
                 /\ settings'["book_search_offset"] = <<"0">>
                 /\ settings'["book_search_hour"] = NumberToString(HourOf(now))
            ELSE settings' = settings
     /\ (xr[1].pc = "fetch" /\ xr'[1].pc = "search") =>
          /\ xr'[1].offset = ParseInt(settings["book_search_offset"])
          /\ NumOf(xr[1].errors, "hour") = 1 =>
               xr'[1].offset = 0 /\ xr'[1].fetched[1] = 1]_vars

\* a later run of the trigger found a new hour and fetched from the first book
C26_Witness ==
  /\ xruns >= 2
  /\ HourOf(now) = 1
  /\ xr[1].pc = "search"
  /\ NumOf(xr[1].errors, "hour") = 1
  /\ xr[1].offset = 0
  /\ Cardinality(books) >= 5

\* C27: a run makes at most 10 reply attempts, and the candidates it selects
\* are the best by like_count + followers: every selected candidate scores at
\* least as high as every remaining candidate that was not selected
C27_TopTen ==
  \A i \in Procs :
    /\ xr[i].calls.reply <= TopN
    /\ Len(xr[i].top) <= TopN
    /\ Range(xr[i].top) \subseteq Range(xr[i].fresh)
    /\ \A t \in Range(xr[i].top) : \A u \in Range(xr[i].fresh) \ Range(xr[i].top) :
         Score(t) >= Score(u)

\* a run with more than 10 remaining candidates has made its 10 reply attempts
C27_Witness ==
  /\ xr[1].pc = "advance"
  /\ Len(xr[1].fresh) > TopN
  /\ Len(xr[1].top) = TopN
  /\ xr[1].calls.reply = TopN

\* the username is absent, empty, or has 4 or more digits in a row
BadUsername(un) ==
  \/ ~un.has
  \/ Len(un.name) = 0
  \/ \E a \in 1..Len(un.name) : \E b \in a..Len(un.name) :
       b - a >= 3 /\ \A k \in a..b : un.name[k] = "d"

\* C28: of the tweets the searches of a run returned, the filter removes
\* exactly those whose username is absent, empty or has a run of 4 or more
\* digits; no removed tweet is among the scored or selected candidates, and
\* no such user is ever sent a reply
C28_SuspiciousFilter ==
  /\ \A i \in Procs :
       /\ xr[i].pc \in {"search", "known"} =>
            Range(xr[i].allPosts) = {t \in xr[i].seen : ~BadUsername(Username(TweetAuthor(t)))}
       /\ Range(xr[i].fresh) \subseteq Range(xr[i].allPosts)
       /\ Range(xr[i].top) \subseteq Range(xr[i].allPosts)
       /\ \A t \in Range(xr[i].allPosts) : ~BadUsername(Username(TweetAuthor(t)))
  /\ \A u \in Users : BadUsername(Username(u)) => sent[u] = <<>>

\* a search returned tweets with an absent, an empty and a four-digit
\* username next to usable ones, and the run is about to score the candidates
C28_Witness ==
  /\ xr[1].pc = "known"
  /\ {4, 5, 6, 7} \subseteq xr[1].seen
  /\ Len(xr[1].allPosts) >= 4

\* the post at position x of the candidates is the first with the highest
\* maximum overall_score, and that score is above 0
FirstHighest(sugg, x) ==
  /\ MaxScore(sugg[x].resp) > 0
  /\ \A y \in 1..Len(sugg) : MaxScore(sugg[y].resp) <= MaxScore(sugg[x].resp)
  /\ \A y \in 1..(x - 1) : MaxScore(sugg[y].resp) < MaxScore(sugg[x].resp)

\* C29: of the posts that have at least one suggested book, selectBookRequest
\* returns the one whose maximum overall_score is the highest, the first in
\* iteration order when several share it, and no post when no maximum is
\* above 0; the reply of the run goes to the post it returned
C29_SelectsHighest ==
  \A i \in Procs :
    LET sugg == rr[i].suggestions
        post == selectBookRequest(sugg)
    IN  /\ \A x \in 1..Len(sugg) : HasSuggestions(sugg[x].resp)
        /\ IF \E x \in 1..Len(sugg) : MaxScore(sugg[x].resp) > 0
             THEN \E x \in 1..Len(sugg) : sugg[x].post = post /\ FirstHighest(sugg, x)
             ELSE post = 0
        /\ selectOne /\ rr[i].pc \in {"reply", "upvote"} => rr[i].target = post

\* two posts share the highest maximum score and the run replies to the one
\* that was first in the list
C29_Witness ==
  /\ selectOne
  /\ rr[1].pc = "upvote"
  /\ Len(rr[1].suggestions) = 2
  /\ MaxScore(rr[1].suggestions[1].resp) = MaxScore(rr[1].suggestions[2].resp)
  /\ rr[1].target = rr[1].suggestions[1].post
  /\ rr[1].target # rr[1].suggestions[2].post

\* the elements of the books array whose title is, letter case aside, the
\* title of a row of books
MatchPositions(bs) ==
  {x \in 1..Len(bs) : ~bs[x].isNull /\ bs[x].title.id \in books}

\* the bullets m are the matching elements of bs, one bullet each, in the
\* order of bs, each with the book of the store and the hook of its element
BulletsFollow(m, bs) ==
  \E f \in [1..Len(m) -> 1..Len(bs)] :
    /\ {f[k] : k \in 1..Len(m)} = MatchPositions(bs)
    /\ \A k \in 1..Len(m) : \A l \in 1..Len(m) : k < l => f[k] < f[l]
    /\ \A k \in 1..Len(m) :
         /\ m[k].book \in books
         /\ m[k].book = bs[f[k]].title.id
         /\ m[k].hook = bs[f[k]].hook

\* C30: every bullet of a composed reply names a book of the store that a
\* suggested title matches letter case aside, the bullets follow the order
\* of the suggestions, a title without a match gives no bullet, and a post
\* whose suggestions match no title gets no reply call and no upvote call
C30_BulletsFromStore ==
  \A i \in Procs :
    /\ \A x \in 1..Len(rr[i].got) :
         LET resp == rr[i].got[x].resp
             msg == composeReply(resp)
         IN  /\ msg # <<>> => BulletsFollow(msg, resp.books)
             /\ MatchPositions(resp.books) = {} =>
                  /\ msg = <<>>
                  /\ rr[i].got[x].post \notin rr[i].repliedTo
                  /\ rr[i].pc \in {"reply", "upvote"} => rr[i].target # rr[i].got[x].post
    /\ rr[i].pc \in {"reply", "upvote"} =>
         /\ rr[i].message # <<>>
         /\ \E x \in 1..Len(rr[i].got) :
              /\ rr[i].got[x].post = rr[i].target
              /\ rr[i].message = composeReply(rr[i].got[x].resp)
    /\ rr[i].replyCalls + rr[i].upvoteCalls > 0 =>
         \E x \in 1..Len(rr[i].got) : MatchPositions(rr[i].got[x].resp.books) # {}

\* a reply was posted for three suggestions of which the second has no row
\* in books: two bullets, in the order of the suggestions
C30_Witness ==
  /\ rr[1].pc = "upvote"
  /\ rr[1].replyCalls = 1
  /\ Len(rr[1].message) = 2
  /\ rr[1].message[1].book = 2
  /\ rr[1].message[2].book = 1
  /\ \E x \in 1..Len(rr[1].got) :
       /\ rr[1].got[x].post = rr[1].target
       /\ Len(rr[1].got[x].resp.books) = 3

\* C31: a failed reply call or upvote call for a submission is caught: the
\* promise of quarterHourly does not reject
C31_ReplyFailureCaught ==
  \A i \in Procs :
    rr[i].callFailed /\ rr[i].replyCalls + rr[i].upvoteCalls > 0 =>
      rr[i].outcome # "error"

\* the rows of posts that invocation i of the route holds as the result of
\* fetchScheduledPosts
Fetched(i) == {proc[i].batch[k] : k \in 1..Len(proc[i].batch)}

StoredOffset(st) == GetSetting(st, "book_search_offset", 0)

\* C33: a run that finds the stored offset at or past the end of the catalog
\* fetches no book, stores offset 0, makes no search and no reply call and
\* returns; a run that starts with offset 0 in the hour already stored
\* processes the chunk that starts at the first book
C33_OffsetPastEnd ==
  [][/\ xr[1].pc = "fetch" /\ xr'[1] # xr[1]
        /\ StoredOffset(settings) >= Cardinality(books) =>
          /\ xr'[1].pc = "done"
          /\ xr'[1].booksProcessed = 0
          /\ xr'[1].calls = [search |-> 0, reply |-> 0]
          /\ StoredOffset(settings') = 0
          /\ "book_search_offset" \in DOMAIN settings'
          /\ sweep' = sweep
     /\ /\ xr[1].pc = "done"
        /\ xr[1].errors # <<>>
        /\ xr[1].errors[Len(xr[1].errors)] = "nochunk"
        /\ xr'[1].pc # "done"
        => /\ xr'[1].entry.settings = settings
           /\ StoredOffset(settings) = 0
     /\ /\ xr[1].pc = "fetch" /\ xr'[1] # xr[1]
        /\ StoredOffset(xr[1].entry.settings) = 0
        /\ GetSetting(xr[1].entry.settings, "book_search_hour", 0 - 1) = HourOf(now)
        /\ books # {}
        => /\ xr'[1].pc = "search"
           /\ xr'[1].offset = 0
           /\ xr'[1].fetched = SubSeq(SortedSeq(books), 1, Len(xr'[1].fetched))
           /\ xr'[1].fetched # <<>>
  ]_vars

\* after the catalog shrank below the stored offset a run stopped without a
\* chunk, and the next run, in the same hour, searches the first book
C33_Witness ==
  /\ now = 0
  /\ xr[1].pc = "search"
  /\ xr[1].offset = 0
  /\ xr[1].fetched[1] = 1
  /\ xruns = Len(sweep) + 1
  /\ Len(sweep) >= 2
  /\ sweep[Len(sweep) - 1].offset >= Cardinality(books)

\* C34: with a catalog that does not change and is not empty, the stored
\* book_search_offset is at least 0, below the number of books, and a
\* multiple of chunk = min(50, ceil(totalBooks / 4)), in particular after
\* every completed run
C34_OffsetInRange ==
  books # {} =>
    LET total == Cardinality(books)
        quarter == IF total % 4 = 0 THEN total \div 4 ELSE (total \div 4) + 1
        chunk == IF quarter > 50 THEN 50 ELSE quarter
        o == StoredOffset(settings)
    IN  /\ 0 <= o
        /\ o < total
        /\ o % chunk = 0
        /\ "book_search_offset" \in DOMAIN settings =>
             settings["book_search_offset"] = NumberToString(o)

\* with 201 books the fifth run of the hour has completed and left the
\* offset at the last book
C34_Witness ==
  /\ Cardinality(books) = 4 * MaxChunk + 1
  /\ xr[1].pc = "done"
  /\ Len(sweep) = 4
  /\ StoredOffset(settings) = 4 * MaxChunk

\* the offset stored after a run that fetched at offset o
Advanced(o) ==
  LET total == Cardinality(books)
      quarter == IF total % 4 = 0 THEN total \div 4 ELSE (total \div 4) + 1
      chunk == IF quarter > 50 THEN 50 ELSE quarter
  IN  IF o + chunk >= total THEN 0 ELSE o + chunk

\* C35: a completed run that fetched a chunk has advanced the stored offset
\* by one chunk whatever calls of it failed, and the next chunk fetched in
\* the same hour starts where that run left the offset, so the chunk is not
\* fetched again before the offset wraps
C35_AdvanceDespiteFailures ==
  /\ xr[1].pc = "done" /\ xr[1].booksProcessed > 0 =>
       StoredOffset(settings) = Advanced(sweep[Len(sweep)].offset)
  /\ xr[1].pc \in {"search", "known", "reply", "record", "advance"} =>
       StoredOffset(settings) = sweep[Len(sweep)].offset
  /\ \A k \in 1..(Len(sweep) - 1) : sweep[k + 1].offset = Advanced(sweep[k].offset)

\* the second run of the hour fetched the second chunk; its known-user
\* lookup and its reply calls failed, and it left the offset at the third chunk
C35_Witness ==
  /\ xr[1].pc = "done"
  /\ xruns = 2
  /\ now = 0
  /\ Len(sweep) = 2
  /\ sweep[2].offset = Advanced(0)
  /\ \E x \in 1..Len(xr[1].errors) : xr[1].errors[x] = "lookup"
  /\ xr[1].calls.reply >= 1
  /\ xr[1].failed.reply = xr[1].calls.reply
  /\ replies = {}
  /\ StoredOffset(settings) = Advanced(Advanced(0))
  /\ StoredOffset(settings) > 0

\* C36: the rows of replies dated within the last 24 hours never number
\* more than ReplyCap + 9: a run makes reply calls only when it counted fewer
\* than ReplyCap rows, and it adds at most 10 rows
C36_CapOvershoot ==
  /\ RecentReplies(now) <= ReplyCap + 9
  /\ \A i \in Procs :
       /\ xr[i].calls.reply > 0 => xr[i].last24 < ReplyCap
       /\ xr[i].pc # "idle" =>
            /\ Cardinality(replies \ xr[i].entry.replies) <= 10
            /\ RecentReplies(now) <= xr[i].last24 + 10

\* a run that counted ReplyCap - 1 rows has added 9 more
C36_Witness ==
  /\ xr[1].last24 = ReplyCap - 1
  /\ xr[1].repliesMade >= 9
  /\ RecentReplies(now) = ReplyCap + 8
  /\ xr[1].pc = "advance"

\* the post is still scheduled after the day of its published_date
Stale(id) == posts[id].status = "scheduled" /\ posts[id].date < today

\* C37: a post that is still scheduled after the day of its published_date
\* is never fetched and never published, and stays as it is; the check of
\* schedulePost looks only at the posts for tomorrow, so with none of those
\* it goes on to select the next item
C37_StaleStaysScheduled ==
  [][/\ \A id \in PostIds :
          Stale(id) =>
            /\ posts'[id] = posts[id]
            /\ posts'[id].date < today'
            /\ pubCount'[id] = pubCount[id]
            /\ \A i \in Procs : id \notin {proc'[i].batch[k] : k \in 1..Len(proc'[i].batch)}
     /\ /\ proc[1].step \in 1..Len(platforms)
        /\ proc[1].pc = "start"
        /\ proc'[1] # proc[1]
        /\ ~ \E id \in PostIds :
               /\ posts[id].status = "scheduled"
               /\ posts[id].platform = PlatformTag(ClientOf(proc[1]))
               /\ posts[id].date = today + 1
        => proc'[1].pc = "select"
  ]_vars

\* the day of a scheduled post passed; a later invocation published the
\* post of the day for the same platform and scheduled one for tomorrow
C37_Witness ==
  /\ proc[1].outcome = "ok"
  /\ \E a \in PostIds, b \in PostIds, c \in PostIds :
       /\ Stale(a)
       /\ posts[b].platform = posts[a].platform
       /\ posts[b].status = "published" /\ posts[b].date = today
       /\ posts[c].platform = posts[a].platform
       /\ posts[c].status = "scheduled" /\ posts[c].date = today + 1
       /\ a < b /\ b < c

\* the posts of client c dated today
TodayOf(c) == {id \in PostIds : posts[id].platform = PlatformTag(c) /\ posts[id].date = today}

\* C38: an invocation of the daily route calls schedulePost for each
\* platform in the order X, reddit, LinkedIn, Facebook and only then
\* publishScheduledPosts in the same order; a failed publish call of X ends
\* the invocation with an error, and after the only invocation of a day
\* failed with a post of X still scheduled, the posts of the other
\* platforms for today are unpublished and still scheduled
C38_ScheduleThenPublish ==
  /\ [](/\ \A k \in 1..Len(platforms) : platforms[k] = DailyPlatforms[k]
        /\ (/\ runs = 1 /\ proc[1].step = 0 /\ proc[1].outcome = "error"
            /\ \E id \in TodayOf("X") : posts[id].status = "scheduled")
           => \A c \in Clients \ {"X"} : \A id \in TodayOf(c) :
                posts[id].status = "scheduled" /\ pubCount[id] = 0)
  /\ [][LET n == Len(platforms)
            s == proc[1].step
        IN  /\ s > 0 => proc'[1].step \in {s, s + 1, 0}
            /\ s = 0 => proc'[1].step \in {0, 1}
            /\ Len(posts') > Len(posts) =>
                 /\ s \in 1..n
                 /\ Len(posts') = Len(posts) + 1
                 /\ posts'[Len(posts')].platform = PlatformTag(platforms[s])
            /\ \A id \in PostIds :
                 posts'[id] # posts[id] \/ pubCount'[id] # pubCount[id] =>
                   /\ s \in (n + 1)..(2 * n)
                   /\ posts[id].platform = PlatformTag(platforms[s - n])
            /\ (/\ s = n + 1 /\ proc[1].pc = "call" /\ proc'[1] # proc[1]
                /\ pubCount' = pubCount)
               => proc'[1].step = 0 /\ proc'[1].outcome = "error"
      ]_vars

\* the publish call of X failed in the only invocation of the day, and the
\* posts of reddit, LinkedIn and Facebook for today are still scheduled
C38_Witness ==
  /\ platforms = DailyPlatforms
  /\ runs = 1
  /\ proc[1].step = 0
  /\ proc[1].outcome = "error"
  /\ proc[1].failed
  /\ \A c \in Clients : \E id \in TodayOf(c) :
       posts[id].status = "scheduled" /\ pubCount[id] = 0

\* C39: the watermark is stored before any suggestion or reply step of a
\* run, and a post it has passed is not returned as a candidate again: not
\* one that was a candidate and got no reply, and not one that the limit of
\* the run cut off
C39_WatermarkPassesPosts ==
  /\ [](\A i \in Procs :
         rr[i].pc \in {"suggest", "reply", "upvote"} =>
           /\ WatermarkKey \in DOMAIN settings
           /\ Watermark >= rr[i].stamp
           /\ \A k \in 1..Len(rr[i].newPosts) : subs[rr[i].newPosts[k]].created <= Watermark)
  /\ [][\A s \in 1..Len(subs) :
         (WatermarkKey \in DOMAIN settings /\ subs[s].created <= Watermark) =>
           /\ subs'[s].returned = subs[s].returned
           /\ \A i \in Procs :
                rr[i].pc \in {"idle", "fetch", "mark"} =>
                  \A k \in 1..Len(rr'[i].newPosts) :
                    rr'[i].pc \in {"suggest", "reply", "upvote"} => rr'[i].newPosts[k] # s
     ]_vars

\* a second run fetched and found no candidate: of the posts of the first
\* run one was cut off by the limit and none has a reply
C39_Witness ==
  /\ rruns = 2
  /\ rr[1].outcome = "ok"
  /\ rr[1].pc = "idle"
  /\ rr[1].newPosts = <<>>
  /\ Len(subs) > FetchLimit
  /\ subs[1].returned = 0
  /\ \A s \in 2..Len(subs) : subs[s].returned = 1 /\ subs[s].replies = 0

\* the model was asked about every candidate of run i and the post was selected
Selected(i) ==
  /\ selectOne
  /\ rr[i].pc \in {"idle", "reply", "upvote"}
  /\ rr[i].outcome # "none" \/ rr[i].pc # "idle"
  /\ rr[i].newPosts # <<>>
  /\ Len(rr[i].got) = Len(rr[i].newPosts)

\* C40: the post is selected by the scores alone; when none of the titles
\* suggested for it is in the store the run makes no reply call and no
\* upvote call, whatever the other candidates' suggestions match, and
\* otherwise the reply goes to the selected post
C40_SelectionBeforeStoreCheck ==
  \A i \in Procs :
    Selected(i) =>
      LET sugg == rr[i].suggestions
          best == {x \in 1..Len(sugg) : FirstHighest(sugg, x)}
      IN  /\ Cardinality(best) <= 1
          /\ best = {} => rr[i].replyCalls = 0 /\ rr[i].upvoteCalls = 0
          /\ \A x \in best :
               IF MatchPositions(sugg[x].resp.books) = {}
                 THEN /\ rr[i].replyCalls = 0
                      /\ rr[i].upvoteCalls = 0
                      /\ rr[i].pc = "idle"
                      /\ rr[i].outcome = "ok"
                 ELSE /\ rr[i].target = sugg[x].post
                      /\ rr[i].repliedTo \subseteq {sugg[x].post}

\* the post with the best score has no title of the store and the run
\* returned without a reply, although the other candidate has a matching title
C40_Witness ==
  /\ Selected(1)
  /\ rr[1].pc = "idle"
  /\ rr[1].outcome = "ok"
  /\ rr[1].replyCalls = 0
  /\ Len(rr[1].suggestions) = 2
  /\ \E x \in 1..2 :
       /\ FirstHighest(rr[1].suggestions, x)
       /\ MatchPositions(rr[1].suggestions[x].resp.books) = {}
       /\ MatchPositions(rr[1].suggestions[3 - x].resp.books) # {}
       /\ MaxScore(rr[1].suggestions[3 - x].resp) > 0

====
